---- MODULE Spec2Model ----
(***************************************************************************)
(* The recipe aggregate of FM-Recipes: the Recipe / RecipeIngredient /     *)
(* RecipeRating tables (src/src/prisma/client.ts), the raw-SQL repository  *)
(* CustomPrismaClient, the HTTP controller RecipeController                *)
(* (src/src/types.ts), the role gates of RecipePlugin.getRoutes            *)
(* (src/src/index.ts) and the ORM-based RecipeService                      *)
(* (src/unnamed/part_000).                                                 *)
(*                                                                         *)
(* Every awaited database statement is one step of the request that issues *)
(* it, so requests interleave between statements exactly as the Node event *)
(* loop lets them.  A nullable column or optional value is a set: {} is    *)
(* null / undefined, {v} is the value v.  A request payload is a function  *)
(* whose DOMAIN is the set of keys the caller supplied.                    *)
(***************************************************************************)
EXTENDS Integers, Sequences, FiniteSets, TLC

VARIABLES recipes, ingredients, ratings, nextId, tx, procs, config

vars == <<recipes, ingredients, ratings, nextId, tx, procs, config>>

-----------------------------------------------------------------------------
(* Bounds of the model *)

\* recipe rows ever created (a create waits out once the ids are used up)
MaxRecipes == 3
\* longest ingredient list a caller submits
MaxIngredients == 2
\* requests in flight together
NumProcs == 2
\* longest rating sequence handed to the aggregator
MaxRatings == 2
\* a score strictly between the schema's limits, used as the sample value
MidScore == 3
\* interval timers the plugin ever sets (calls of onStart)
MaxTimers == 3

(* Program constants *)
MinScore == 0
MaxScore == 5

-----------------------------------------------------------------------------
(* Value domains *)

Procs == 1..NumProcs
RecipeIds == 1..MaxRecipes
\* the ids a request may name: every recipe in the store and one id that is not
TargetIds == {r.id : r \in recipes} \cup {nextId.recipe}
Users == {"u1", "u2"}
Families == {"f1", "f2"}
Roles == {"PARENT", "CHILD"}
Names == {"Soup", "Stew"}
Scores == {MinScore, MidScore, MaxScore}
RatingFields == {"nutrition", "flavor", "difficulty"}
RatingKeys == RatingFields \cup {"comment"}

UserContext == [id : Users, role : Roles, familyId : Families]
NoActor == [id |-> "", role |-> "", familyId |-> ""]

\* RateRecipeInput samples: no key, one number that is 0, a non-zero number with a
\* comment, and every key (with a 0 and an empty comment among the values)
RatingInputs ==
  { <<>>,
    [nutrition |-> MinScore],
    [flavor |-> MidScore, comment |-> "tasty"],
    [nutrition |-> MaxScore, flavor |-> MinScore, difficulty |-> MidScore, comment |-> ""] }

\* ingredient lines a caller submits: with empty notes, without notes, with notes
EmptyNotesLine == [itemId |-> "egg", quantity |-> 1, unit |-> "pc", notes |-> ""]
FlourLine == [itemId |-> "flour", quantity |-> 2, unit |-> "cup"]
SampleLine == [itemId |-> "egg", quantity |-> 1, unit |-> "pc", notes |-> "beaten"]
IngredientInputs == <<EmptyNotesLine, FlourLine, SampleLine, FlourLine>>

\* the ingredient lists a caller submits: the first n lines, n up to MaxIngredients
IngredientLists == { SubSeq(IngredientInputs, 1, n) : n \in 0..MaxIngredients }

\* the falsy value of a field's type: 0 for a number, "" for a string
Falsy(k) == IF k \in {"comment", "notes"} THEN "" ELSE 0

\* `data.field || null` of an optional field: absent, 0 and "" all become null
OrNull(d, k) == IF k \in DOMAIN d /\ d[k] # Falsy(k) THEN {d[k]} ELSE {}

\* an optional field handed to the ORM unchanged: undefined becomes null
Opt(d, k) == IF k \in DOMAIN d THEN {d[k]} ELSE {}

-----------------------------------------------------------------------------
(* The store *)

RecipeOf(tbl, id) == { r \in tbl : r.id = id }
RatingsOf(tbl, rid) == { r \in tbl : r.recipeId = rid }
IngredientsOf(tbl, rid) == { r \in tbl : r.recipeId = rid }
RatingOfPair(tbl, rid, uid) == { r \in tbl : r.recipeId = rid /\ r.userId = uid }

NoTx == [owner |-> 0, recipes |-> {}, ingredients |-> {}]

\* an autocommit write waits while an interactive transaction holds the write lock
CanWrite == tx.owner = 0

\* the row INSERT INTO "Recipe" writes: usageCount 0
RecipeRow(id, name, prepTime, uid, fid) ==
  [id |-> id, name |-> name, prepTime |-> prepTime, usageCount |-> 0,
   userId |-> uid, familyId |-> fid]

DefaultRoles == [canCreateRecipes |-> {"PARENT", "CHILD"}, canDeleteRecipes |-> {"PARENT"},
                 canRateRecipes |-> {"PARENT", "CHILD"}]

Store == [recipes |-> recipes, ingredients |-> ingredients, ratings |-> ratings]

-----------------------------------------------------------------------------
(* CustomPrismaClient.findRecipeById *)

\* a number that is a quotient, kept exact
Frac(n, d) == [num |-> n, den |-> d]
SameNumber(a, b) == a.num * b.den = b.num * a.den

RECURSIVE SumOver(_, _)
\* the sum of field f over a set of rows, counting only rows where f is not null
SumOver(rows, f) ==
  IF rows = {} THEN 0
  ELSE LET r == CHOOSE x \in rows : TRUE
       IN (IF r[f] = {} THEN 0 ELSE CHOOSE v \in r[f] : TRUE) + SumOver(rows \ {r}, f)

AtLeastOne(n) == IF n = 0 THEN 1 ELSE n

\* avg(rr.f) over the joined rows: each rating row appears once per ingredient row
\* of the recipe (once if it has none); SQL avg of no non-null value is null
SqlAvg(rows, f, copies) ==
  LET valid == { r \in rows : r[f] # {} }
  IN IF valid = {} THEN {}
     ELSE {Frac(copies * SumOver(valid, f), copies * Cardinality(valid))}

IngredientJson(ri) ==
  [id |-> ri.id, itemId |-> ri.itemId, quantity |-> ri.quantity, unit |-> ri.unit,
   notes |-> ri.notes]

RatingJson(rr) ==
  [userId |-> rr.userId, nutrition |-> rr.nutrition, flavor |-> rr.flavor,
   difficulty |-> rr.difficulty, comment |-> rr.comment]

\* The row of the GROUP BY r.id query over Recipe LEFT JOIN RecipeIngredient LEFT JOIN
\* RecipeRating: both json_group_array columns aggregate over every joined row, so
\* each array is a bag (element |-> number of copies); the all-null element of an
\* empty side is filtered out after JSON.parse.
RecipeResult(r, ingTbl, ratTbl) ==
  LET ings == IngredientsOf(ingTbl, r.id)
      rats == RatingsOf(ratTbl, r.id)
  IN [recipe |-> r,
      ingredients |-> [j \in {IngredientJson(i) : i \in ings} |->
                         AtLeastOne(Cardinality(rats))],
      ratings |-> [j \in {RatingJson(x) : x \in rats} |->
                     AtLeastOne(Cardinality(ings))],
      averageRatings |-> [f \in RatingFields |->
                            SqlAvg(rats, f, AtLeastOne(Cardinality(ings)))]]

\* null ({}) or the one result
findRecipeById(id) ==
  { RecipeResult(r, ingredients, ratings) : r \in RecipeOf(recipes, id) }

-----------------------------------------------------------------------------
(* Requests *)

IdleProc ==
  [op |-> "none", pc |-> "idle", actor |-> NoActor, rid |-> 0, data |-> <<>>,
   loc |-> <<>>, res |-> [status |-> "NONE", value |-> {}],
   pre |-> [recipes |-> {}, ingredients |-> {}, ratings |-> {}], solo |-> TRUE,
   seq |-> 0]

InFlight(q) == procs[q].pc \notin {"idle", "done"}

\* request p starts (requests take the process slots in order): it runs alone unless another request is in flight, and any
\* request in flight no longer runs alone
Begin(p, op, pc, actor, rid, data) ==
  /\ procs[p].pc = "idle"
  /\ \A o \in Procs : o < p => procs[o].pc # "idle"
  /\ procs' = [q \in Procs |->
       IF q = p
         THEN [IdleProc EXCEPT !.op = op, !.pc = pc, !.actor = actor, !.rid = rid,
                               !.data = data, !.pre = Store,
                               !.solo = \A o \in Procs \ {p} : ~InFlight(o),
                               !.seq = Cardinality({o \in Procs : procs[o].pc # "idle"}) + 1]
         ELSE IF InFlight(q) THEN [procs[q] EXCEPT !.solo = FALSE] ELSE procs[q]]

Goto(p, pc, loc) == procs' = [procs EXCEPT ![p].pc = pc, ![p].loc = loc]

Finish(p, status, value) ==
  procs' = [procs EXCEPT ![p].pc = "done", ![p].res = [status |-> status, value |-> value]]

Done(p, op) == procs[p].pc = "done" /\ procs[p].op = op

\* p ran with no other request in flight, and no request has started since
RanAloneLast(p) ==
  /\ procs[p].solo
  /\ \A q \in Procs \ {p} : procs[q].seq < procs[p].seq /\ ~InFlight(q)

-----------------------------------------------------------------------------
(* CustomPrismaClient.rateRecipe *)

PrismaRateRecipe(p, rid, uid, data) ==
  /\ Begin(p, "prisma.rateRecipe", "rate_select", [NoActor EXCEPT !.id = uid], rid, data)
  /\ UNCHANGED <<recipes, ingredients, ratings, nextId, tx, config>>

\* SELECT id FROM "RecipeRating" WHERE recipeId = ? AND userId = ? LIMIT 1
rateRecipe_select(p) ==
  /\ procs[p].pc = "rate_select"
  /\ Goto(p, "rate_write",
          [existing |-> RatingOfPair(ratings, procs[p].rid, procs[p].actor.id) # {}])
  /\ UNCHANGED <<recipes, ingredients, ratings, nextId, tx, config>>

\* the keys of Object.entries(data) whose value is not undefined
rateSetClauses(data) == DOMAIN data

\* the update overwriting every rating column, absent keys with null
RatingUpdated_overwriteAll(row, data) ==
  [k \in DOMAIN row |-> IF k \in RatingKeys THEN Opt(data, k) ELSE row[k]]

\* the row after UPDATE "RecipeRating" SET <setClauses>
RatingUpdated(row, data) ==
  [k \in DOMAIN row |-> IF k \in rateSetClauses(data) THEN {data[k]} ELSE row[k]]

\* the row of INSERT INTO "RecipeRating" ... VALUES (..., ${data.nutrition || null}, ...)
RatingInserted(id, rid, uid, data) ==
  [id |-> id, recipeId |-> rid, userId |-> uid,
   nutrition |-> OrNull(data, "nutrition"), flavor |-> OrNull(data, "flavor"),
   difficulty |-> OrNull(data, "difficulty"), comment |-> OrNull(data, "comment")]

\* the table without its unique index
RatingUniqueOk_noIndex(tbl, rid, uid) == TRUE

\* @@unique([recipeId, userId]) of model RecipeRating
RatingUniqueOk(tbl, rid, uid) == RatingOfPair(tbl, rid, uid) = {}

\* the rating table without its foreign key
RatingForeignKeyOk_unenforced(rid) == TRUE

\* recipe Recipe @relation(fields: [recipeId], references: [id])
RatingForeignKeyOk(rid) == RecipeOf(recipes, rid) # {}

\* where the request goes when the repository's rateRecipe returns
AfterRate(p) == IF procs[p].op = "controller.rateRecipe" THEN "ctl_increment" ELSE "done"

RateReturn(p) ==
  procs' = [procs EXCEPT ![p].pc = AfterRate(p),
                         ![p].res = [status |-> "OK", value |-> {}]]

rateRecipe_update(p) ==
  LET d == procs[p].data
      rid == procs[p].rid
      uid == procs[p].actor.id
  IN /\ procs[p].pc = "rate_write"
     /\ procs[p].loc.existing
     /\ \/ \* Prisma.join of an empty list throws before any statement is sent
           /\ rateSetClauses(d) = {}
           /\ Finish(p, "ERROR", {})
           /\ UNCHANGED ratings
        \/ /\ rateSetClauses(d) # {}
           /\ CanWrite
           /\ ratings' = { IF r.recipeId = rid /\ r.userId = uid
                             THEN RatingUpdated(r, d) ELSE r : r \in ratings }
           /\ RateReturn(p)
     /\ UNCHANGED <<recipes, ingredients, nextId, tx, config>>

rateRecipe_insert(p) ==
  LET d == procs[p].data
      rid == procs[p].rid
      uid == procs[p].actor.id
  IN /\ procs[p].pc = "rate_write"
     /\ ~procs[p].loc.existing
     /\ CanWrite
     /\ \/ /\ RatingForeignKeyOk(rid)
           /\ RatingUniqueOk(ratings, rid, uid)
           /\ ratings' = ratings \cup {RatingInserted(nextId.row, rid, uid, d)}
           /\ nextId' = [nextId EXCEPT !.row = @ + 1]
           /\ RateReturn(p)
        \/ \* the store rejects the row: foreign key or unique constraint
           /\ ~(RatingForeignKeyOk(rid) /\ RatingUniqueOk(ratings, rid, uid))
           /\ Finish(p, "ERROR", {})
           /\ UNCHANGED <<ratings, nextId>>
     /\ UNCHANGED <<recipes, ingredients, tx, config>>

-----------------------------------------------------------------------------
(* Interactive transactions: this.$transaction(async (tx) => ...) *)

\* Statements sent through tx write a private copy of the tables, which replaces the
\* tables at COMMIT and is dropped at ROLLBACK.  The first write takes the store's
\* write lock; until the end of the transaction every other write waits.
\* Statements sent through `this` inside the callback are not part of the
\* transaction: they read the committed tables.
TxCanWrite(p) == tx.owner \in {0, p}

TxTables(p) ==
  IF tx.owner = p THEN tx ELSE [owner |-> p, recipes |-> recipes, ingredients |-> ingredients]

Commit(p) ==
  IF tx.owner = p
    THEN recipes' = tx.recipes /\ ingredients' = tx.ingredients /\ tx' = NoTx
    ELSE UNCHANGED <<recipes, ingredients, tx>>

Rollback(p) == tx' = IF tx.owner = p THEN NoTx ELSE tx

\* the row of INSERT INTO "RecipeIngredient" ... ${ingredient.notes || null}
IngredientInserted(id, rid, line) ==
  [id |-> id, recipeId |-> rid, itemId |-> line.itemId, quantity |-> line.quantity,
   unit |-> line.unit, notes |-> OrNull(line, "notes")]

\* recipe Recipe @relation(fields: [recipeId], references: [id]) of RecipeIngredient
IngredientForeignKeyOk(tbl, rid) == RecipeOf(tbl, rid) # {}

-----------------------------------------------------------------------------
(* CustomPrismaClient.createRecipe *)

PrismaCreateRecipe(p, actor, data) ==
  /\ Begin(p, "prisma.createRecipe", "crt_recipe", actor, 0, data)
  /\ UNCHANGED <<recipes, ingredients, ratings, nextId, tx, config>>

\* where a create or update goes after its i-th ingredient INSERT
AfterIngredient(data, i, insertPc, readPc) ==
  IF i < Len(data.ingredients) THEN insertPc ELSE readPc

\* the recipe INSERT sent outside the transaction: written to the store at once
createRecipe_insertRecipe_autocommit(p) ==
  LET d == procs[p].data
      row == RecipeRow(nextId.recipe, d.name, d.prepTime, procs[p].actor.id,
                       procs[p].actor.familyId)
  IN /\ procs[p].pc = "crt_recipe"
     /\ CanWrite
     /\ nextId.recipe <= MaxRecipes
     /\ recipes' = recipes \cup {row}
     /\ nextId' = [nextId EXCEPT !.recipe = @ + 1]
     /\ procs' = [procs EXCEPT ![p].rid = row.id, ![p].loc = [i |-> 0, result |-> {}],
                               ![p].pc = AfterIngredient(d, 0, "crt_ingredient", "crt_read")]
     /\ UNCHANGED <<ingredients, ratings, tx, config>>

\* tx.$queryRaw`INSERT INTO "Recipe" ... RETURNING *`
createRecipe_insertRecipe(p) ==
  LET d == procs[p].data
      t == TxTables(p)
      row == RecipeRow(nextId.recipe, d.name, d.prepTime, procs[p].actor.id,
                       procs[p].actor.familyId)
  IN /\ procs[p].pc = "crt_recipe"
     /\ TxCanWrite(p)
     /\ nextId.recipe <= MaxRecipes
     /\ tx' = [t EXCEPT !.recipes = @ \cup {row}]
     /\ nextId' = [nextId EXCEPT !.recipe = @ + 1]
     /\ procs' = [procs EXCEPT ![p].rid = row.id, ![p].loc = [i |-> 0, result |-> {}],
                               ![p].pc = AfterIngredient(d, 0, "crt_ingredient", "crt_read")]
     /\ UNCHANGED <<recipes, ingredients, ratings, config>>

\* for (const ingredient of data.ingredients) await tx.$queryRaw`INSERT ...`
createRecipe_insertIngredient(p) ==
  LET d == procs[p].data
      i == procs[p].loc.i + 1
      t == TxTables(p)
  IN /\ procs[p].pc = "crt_ingredient"
     /\ TxCanWrite(p)
     /\ tx' = [t EXCEPT !.ingredients =
                 @ \cup {IngredientInserted(nextId.row, procs[p].rid, d.ingredients[i])}]
     /\ nextId' = [nextId EXCEPT !.row = @ + 1]
     /\ procs' = [procs EXCEPT ![p].loc.i = i,
                               ![p].pc = AfterIngredient(d, i, "crt_ingredient", "crt_read")]
     /\ UNCHANGED <<recipes, ingredients, ratings, config>>

\* return this.findRecipeById(recipe[0].id): sent through this, not through tx
createRecipe_readBack(p) ==
  /\ procs[p].pc = "crt_read"
  /\ procs' = [procs EXCEPT ![p].loc.result = findRecipeById(procs[p].rid),
                            ![p].pc = "crt_commit"]
  /\ UNCHANGED <<recipes, ingredients, ratings, nextId, tx, config>>

\* the callback has returned: COMMIT, and the caller gets the callback's value
createRecipe_commit(p) ==
  /\ procs[p].pc = "crt_commit"
  /\ Commit(p)
  /\ Finish(p, "OK", procs[p].loc.result)
  /\ UNCHANGED <<ratings, nextId, config>>

-----------------------------------------------------------------------------
(* CustomPrismaClient.updateRecipe *)

\* the keys of Object.entries(data) that are not undefined and not 'ingredients'
updateSetClauses(data) == DOMAIN data \ {"ingredients"}

\* if (data.ingredients): any array, the empty one too, is truthy
ReplacesIngredients(data) == "ingredients" \in DOMAIN data

\* the first statement the transaction callback sends
UpdateEntry(data) ==
  IF updateSetClauses(data) # {} THEN "upd_set"
  ELSE IF ReplacesIngredients(data) THEN "upd_delete" ELSE "upd_read"

PrismaUpdateRecipe(p, rid, data) ==
  /\ Begin(p, "prisma.updateRecipe", UpdateEntry(data), NoActor, rid, data)
  /\ UNCHANGED <<recipes, ingredients, ratings, nextId, tx, config>>

\* the update that writes the whole row: a prepTime that is not supplied becomes 0
RecipeUpdated_wholeRow(row, data) ==
  [k \in DOMAIN row |-> IF k \in updateSetClauses(data) THEN data[k]
                      ELSE IF k = "prepTime" THEN 0 ELSE row[k]]

\* the update that also writes usageCount back to 0
RecipeUpdated_resetsUsage(row, data) ==
  [k \in DOMAIN row |-> IF k \in updateSetClauses(data) THEN data[k]
                      ELSE IF k = "usageCount" THEN 0 ELSE row[k]]

\* the row after UPDATE "Recipe" SET <setClauses>
RecipeUpdated(row, data) ==
  [k \in DOMAIN row |-> IF k \in updateSetClauses(data) THEN data[k] ELSE row[k]]

updateRecipe_set(p) ==
  LET d == procs[p].data
      t == TxTables(p)
  IN /\ procs[p].pc = "upd_set"
     /\ TxCanWrite(p)
     /\ tx' = [t EXCEPT !.recipes =
                 { IF r.id = procs[p].rid THEN RecipeUpdated(r, d) ELSE r : r \in @ }]
     /\ procs' = [procs EXCEPT ![p].pc =
                    IF ReplacesIngredients(d) THEN "upd_delete" ELSE "upd_read"]
     /\ UNCHANGED <<recipes, ingredients, ratings, nextId, config>>

\* tx.$queryRaw`DELETE FROM "RecipeIngredient" WHERE recipeId = ${id}`
updateRecipe_deleteIngredients(p) ==
  LET d == procs[p].data
      t == TxTables(p)
  IN /\ procs[p].pc = "upd_delete"
     /\ TxCanWrite(p)
     /\ tx' = [t EXCEPT !.ingredients = @ \ IngredientsOf(@, procs[p].rid)]
     /\ procs' = [procs EXCEPT ![p].loc = [i |-> 0],
                               ![p].pc = AfterIngredient(d, 0, "upd_insert", "upd_read")]
     /\ UNCHANGED <<recipes, ingredients, ratings, nextId, config>>

updateRecipe_insertIngredient(p) ==
  LET d == procs[p].data
      i == procs[p].loc.i + 1
      t == TxTables(p)
  IN /\ procs[p].pc = "upd_insert"
     /\ TxCanWrite(p)
     /\ \/ /\ IngredientForeignKeyOk(t.recipes, procs[p].rid)
           /\ tx' = [t EXCEPT !.ingredients =
                       @ \cup {IngredientInserted(nextId.row, procs[p].rid, d.ingredients[i])}]
           /\ nextId' = [nextId EXCEPT !.row = @ + 1]
           /\ procs' = [procs EXCEPT ![p].loc.i = i,
                                     ![p].pc = AfterIngredient(d, i, "upd_insert", "upd_read")]
        \/ \* the recipe is gone: the store rejects the row and the transaction aborts
           /\ ~IngredientForeignKeyOk(t.recipes, procs[p].rid)
           /\ Rollback(p)
           /\ Finish(p, "ERROR", {})
           /\ UNCHANGED nextId
     /\ UNCHANGED <<recipes, ingredients, ratings, config>>

\* const recipe = await this.findRecipeById(id): sent through this, not through tx
updateRecipe_readBack(p) ==
  LET found == findRecipeById(procs[p].rid)
  IN /\ procs[p].pc = "upd_read"
     /\ IF found = {}
          THEN Rollback(p) /\ Finish(p, "ERROR", {})
          ELSE /\ procs' = [procs EXCEPT ![p].loc = [result |-> found], ![p].pc = "upd_commit"]
               /\ UNCHANGED tx
     /\ UNCHANGED <<recipes, ingredients, ratings, nextId, config>>

updateRecipe_commit(p) ==
  /\ procs[p].pc = "upd_commit"
  /\ Commit(p)
  /\ Finish(p, "OK", procs[p].loc.result)
  /\ UNCHANGED <<ratings, nextId, config>>

-----------------------------------------------------------------------------
(* CustomPrismaClient.deleteRecipe, incrementUsageCount *)

\* const recipe = await this.findRecipeById(id, false)
deleteRecipe_find(p) ==
  /\ procs[p].pc = "del_find"
  /\ IF RecipeOf(recipes, procs[p].rid) = {}
       THEN Finish(p, "ERROR", {})
       ELSE Goto(p, "del_delete", <<>>)
  /\ UNCHANGED <<recipes, ingredients, ratings, nextId, tx, config>>

\* DELETE FROM "Recipe" WHERE id = ${id}, with onDelete: Cascade of both child tables
deleteRecipe_delete(p) ==
  /\ procs[p].pc = "del_delete"
  /\ CanWrite
  /\ recipes' = recipes \ RecipeOf(recipes, procs[p].rid)
  /\ ingredients' = ingredients \ IngredientsOf(ingredients, procs[p].rid)
  /\ ratings' = ratings \ RatingsOf(ratings, procs[p].rid)
  /\ Finish(p, "OK", {})
  /\ UNCHANGED <<nextId, tx, config>>

\* UPDATE "Recipe" SET usageCount = usageCount + 1 WHERE id = ${id}
UsageIncremented(tbl, id) ==
  { IF r.id = id THEN [r EXCEPT !.usageCount = @ + 1] ELSE r : r \in tbl }

\* a direct call of CustomPrismaClient.incrementUsageCount
PrismaIncrementUsageCount(p, rid) ==
  /\ Begin(p, "prisma.incrementUsageCount", "inc_update", NoActor, rid, <<>>)
  /\ UNCHANGED <<recipes, ingredients, ratings, nextId, tx, config>>

\* the UPDATE resolves whatever number of rows it matched
incrementUsageCount(p) ==
  /\ procs[p].pc = "inc_update"
  /\ CanWrite
  /\ recipes' = UsageIncremented(recipes, procs[p].rid)
  /\ Finish(p, "OK", {})
  /\ UNCHANGED <<ingredients, ratings, nextId, tx, config>>

-----------------------------------------------------------------------------
(* RecipeController and the role gates of RecipePlugin.getRoutes *)

\* ratingSchema: each supplied number within [0, 5]
RatingValid(d) ==
  \A k \in DOMAIN d \cap RatingFields : MinScore <= d[k] /\ d[k] <= MaxScore

\* recipeSchema.partial(): name min(1), prepTime min(0), ingredients min(1) with
\* quantity min(0)
UpdateValid(d) ==
  /\ "name" \in DOMAIN d => d.name # ""
  /\ "prepTime" \in DOMAIN d => d.prepTime >= 0
  /\ "ingredients" \in DOMAIN d =>
       /\ Len(d.ingredients) >= 1
       /\ \A i \in 1..Len(d.ingredients) : d.ingredients[i].quantity >= 0

\* access by ownership alone
AccessDenied_ownerOnly(r, user) == r.userId # user.id

\* recipe.userId !== user.id && recipe.familyId !== user.familyId
AccessDenied(r, user) == r.userId # user.id /\ r.familyId # user.familyId

\* rating open to the owner as well as to the family
RateDenied_ownerPasses(r, user) == r.userId # user.id /\ r.familyId # user.familyId

\* recipe.familyId !== user.familyId
RateDenied(r, user) == r.familyId # user.familyId

ControllerGetRecipeById(p, user, rid) ==
  /\ Begin(p, "controller.getRecipeById", "ctl_get", user, rid, <<>>)
  /\ UNCHANGED <<recipes, ingredients, ratings, nextId, tx, config>>

getRecipeById(p) ==
  LET found == findRecipeById(procs[p].rid)
  IN /\ procs[p].pc = "ctl_get"
     /\ IF found = {} THEN Finish(p, "NOT_FOUND", {})
        ELSE IF \E f \in found : AccessDenied(f.recipe, procs[p].actor)
          THEN Finish(p, "FORBIDDEN", {})
          ELSE Finish(p, "OK", found)
     /\ UNCHANGED <<recipes, ingredients, ratings, nextId, tx, config>>

ControllerUpdateRecipe(p, user, rid, data) ==
  /\ Begin(p, "controller.updateRecipe", "ctl_update", user, rid, data)
  /\ UNCHANGED <<recipes, ingredients, ratings, nextId, tx, config>>

\* existence, then access, then validation; then this.prisma.updateRecipe
updateRecipe_check(p) ==
  LET found == findRecipeById(procs[p].rid)
  IN /\ procs[p].pc = "ctl_update"
     /\ IF found = {} THEN Finish(p, "NOT_FOUND", {})
        ELSE IF \E f \in found : AccessDenied(f.recipe, procs[p].actor)
          THEN Finish(p, "FORBIDDEN", {})
        ELSE IF ~UpdateValid(procs[p].data) THEN Finish(p, "VALIDATION", {})
        ELSE Goto(p, UpdateEntry(procs[p].data), <<>>)
     /\ UNCHANGED <<recipes, ingredients, ratings, nextId, tx, config>>

RouteDeleteRecipe(p, user, rid) ==
  /\ Begin(p, "controller.deleteRecipe", "ctl_delete", user, rid, <<>>)
  /\ UNCHANGED <<recipes, ingredients, ratings, nextId, tx, config>>

\* the route's canDeleteRecipes gate, then RecipeController.deleteRecipe: existence,
\* then access; then this.prisma.deleteRecipe
deleteRecipe_check(p) ==
  LET found == findRecipeById(procs[p].rid)
  IN /\ procs[p].pc = "ctl_delete"
     /\ IF procs[p].actor.role \notin config.canDeleteRecipes
          THEN Finish(p, "FORBIDDEN", {})
        ELSE IF found = {} THEN Finish(p, "NOT_FOUND", {})
        ELSE IF \E f \in found : AccessDenied(f.recipe, procs[p].actor)
          THEN Finish(p, "FORBIDDEN", {})
        ELSE Goto(p, "del_find", <<>>)
     /\ UNCHANGED <<recipes, ingredients, ratings, nextId, tx, config>>

RouteRateRecipe(p, user, rid, data) ==
  /\ Begin(p, "controller.rateRecipe", "ctl_rate", user, rid, data)
  /\ UNCHANGED <<recipes, ingredients, ratings, nextId, tx, config>>

\* the rate flow that counts the use on entry, before any of its checks
rateRecipe_check_countsFirst(p) ==
  LET found == findRecipeById(procs[p].rid)
  IN /\ procs[p].pc = "ctl_rate"
     /\ CanWrite
     /\ recipes' = UsageIncremented(recipes, procs[p].rid)
     /\ IF procs[p].actor.role \notin config.canRateRecipes
          THEN Finish(p, "FORBIDDEN", {})
        ELSE IF found = {} THEN Finish(p, "NOT_FOUND", {})
        ELSE IF \E f \in found : RateDenied(f.recipe, procs[p].actor)
          THEN Finish(p, "FORBIDDEN", {})
        ELSE IF ~RatingValid(procs[p].data) THEN Finish(p, "VALIDATION", {})
        ELSE Goto(p, "rate_select", <<>>)
     /\ UNCHANGED <<ingredients, ratings, nextId, tx, config>>

\* the route's canRateRecipes gate, then RecipeController.rateRecipe: existence, then
\* family, then validation; then this.prisma.rateRecipe
rateRecipe_check(p) ==
  LET found == findRecipeById(procs[p].rid)
  IN /\ procs[p].pc = "ctl_rate"
     /\ IF procs[p].actor.role \notin config.canRateRecipes
          THEN Finish(p, "FORBIDDEN", {})
        ELSE IF found = {} THEN Finish(p, "NOT_FOUND", {})
        ELSE IF \E f \in found : RateDenied(f.recipe, procs[p].actor)
          THEN Finish(p, "FORBIDDEN", {})
        ELSE IF ~RatingValid(procs[p].data) THEN Finish(p, "VALIDATION", {})
        ELSE Goto(p, "rate_select", <<>>)
     /\ UNCHANGED <<recipes, ingredients, ratings, nextId, tx, config>>

\* await this.prisma.incrementUsageCount(id)
rateRecipe_increment(p) ==
  /\ procs[p].pc = "ctl_increment"
  /\ CanWrite
  /\ recipes' = UsageIncremented(recipes, procs[p].rid)
  /\ Goto(p, "ctl_reread", <<>>)
  /\ UNCHANGED <<ingredients, ratings, nextId, tx, config>>

\* const updatedRecipe = await this.prisma.findRecipeById(id)
rateRecipe_reread(p) ==
  /\ procs[p].pc = "ctl_reread"
  /\ Finish(p, "OK", findRecipeById(procs[p].rid))
  /\ UNCHANGED <<recipes, ingredients, ratings, nextId, tx, config>>

-----------------------------------------------------------------------------
(* RecipeService.rateRecipe *)

ServiceRateRecipe(p, rid, uid, data) ==
  /\ Begin(p, "service.rateRecipe", "svc_rate_find", [NoActor EXCEPT !.id = uid], rid, data)
  /\ UNCHANGED <<recipes, ingredients, ratings, nextId, tx, config>>

\* db.recipe.findUnique({where: {id}}); throws 'Recipe not found'
serviceRate_find(p) ==
  /\ procs[p].pc = "svc_rate_find"
  /\ IF RecipeOf(recipes, procs[p].rid) = {}
       THEN Finish(p, "NOT_FOUND", {})
       ELSE Goto(p, "svc_rate_upsert", <<>>)
  /\ UNCHANGED <<recipes, ingredients, ratings, nextId, tx, config>>

\* create: {...input, recipeId, userId}
RatingCreated(id, rid, uid, data) ==
  [id |-> id, recipeId |-> rid, userId |-> uid,
   nutrition |-> Opt(data, "nutrition"), flavor |-> Opt(data, "flavor"),
   difficulty |-> Opt(data, "difficulty"), comment |-> Opt(data, "comment")]

\* db.recipeRating.upsert({where: {recipeId_userId}, update: input, create: ...})
serviceRate_upsert(p) ==
  LET d == procs[p].data
      rid == procs[p].rid
      uid == procs[p].actor.id
  IN /\ procs[p].pc = "svc_rate_upsert"
     /\ CanWrite
     /\ \/ /\ RatingOfPair(ratings, rid, uid) # {}
           /\ ratings' = { IF r.recipeId = rid /\ r.userId = uid
                             THEN RatingUpdated(r, d) ELSE r : r \in ratings }
           /\ Finish(p, "OK", {})
           /\ UNCHANGED nextId
        \/ /\ RatingOfPair(ratings, rid, uid) = {}
           /\ RatingForeignKeyOk(rid)
           /\ ratings' = ratings \cup {RatingCreated(nextId.row, rid, uid, d)}
           /\ nextId' = [nextId EXCEPT !.row = @ + 1]
           /\ Finish(p, "OK", {})
        \/ \* the recipe was deleted after the existence check
           /\ RatingOfPair(ratings, rid, uid) = {}
           /\ ~RatingForeignKeyOk(rid)
           /\ Finish(p, "ERROR", {})
           /\ UNCHANGED <<ratings, nextId>>
     /\ UNCHANGED <<recipes, ingredients, tx, config>>

-----------------------------------------------------------------------------
(* A direct call of CustomPrismaClient.findRecipeById *)

PrismaFindRecipeById(p, rid) ==
  /\ Begin(p, "prisma.findRecipeById", "find", NoActor, rid, <<>>)
  /\ UNCHANGED <<recipes, ingredients, ratings, nextId, tx, config>>

\* absence is a result, not an error
findRecipeById_query(p) ==
  /\ procs[p].pc = "find"
  /\ Finish(p, "OK", findRecipeById(procs[p].rid))
  /\ UNCHANGED <<recipes, ingredients, ratings, nextId, tx, config>>

-----------------------------------------------------------------------------
(* RecipeService.calculateAverageRating and getRecipe *)

RECURSIVE SumField(_, _)
\* validRatings.reduce((acc, rating) => acc + (rating[field] || 0), 0)
SumField(rs, f) ==
  IF rs = <<>> THEN 0
  ELSE (IF Head(rs)[f] = {} THEN 0 ELSE CHOOSE v \in Head(rs)[f] : TRUE) + SumField(Tail(rs), f)

\* the mean taken over every rating, those without the field too
calculateAverageRating_jointCount(rs, f) ==
  IF Len(rs) = 0 THEN Frac(0, 1) ELSE Frac(SumField(rs, f), Len(rs))

calculateAverageRating(rs, f) ==
  LET IsValid(r) == r[f] # {}
      validRatings == SelectSeq(rs, IsValid)
  IN IF Len(validRatings) = 0 THEN Frac(0, 1)
     ELSE Frac(SumField(validRatings, f), Len(validRatings))

RECURSIVE RowsInOrder(_)
\* the rows of a relation as the array the ORM returns, in insertion (id) order
RowsInOrder(rows) ==
  IF rows = {} THEN <<>>
  ELSE LET first == CHOOSE r \in rows : \A o \in rows : r.id <= o.id
       IN <<first>> \o RowsInOrder(rows \ {first})

\* db.recipe.findUnique({include: {ingredients, ratings}}) with the computed averages
ServiceRecipe(r) ==
  LET rs == RowsInOrder(RatingsOf(ratings, r.id))
  IN [recipe |-> r,
      ingredients |-> IngredientsOf(ingredients, r.id),
      ratings |-> rs,
      averageRatings |-> [f \in RatingFields |-> calculateAverageRating(rs, f)]]

ServiceGetRecipe(p, rid) ==
  /\ Begin(p, "service.getRecipe", "svc_get", NoActor, rid, <<>>)
  /\ UNCHANGED <<recipes, ingredients, ratings, nextId, tx, config>>

getRecipe(p) ==
  /\ procs[p].pc = "svc_get"
  /\ Finish(p, "OK", { ServiceRecipe(r) : r \in RecipeOf(recipes, procs[p].rid) })
  /\ UNCHANGED <<recipes, ingredients, ratings, nextId, tx, config>>

-----------------------------------------------------------------------------
(* RecipeService.listRecipes; a filter is a function whose DOMAIN is the keys given *)

\* const where = {familyId}; if (filters?.maxPrepTime) where.prepTime = {lte: ...}
WhereMatches(r, fid, filters) ==
  /\ r.familyId = fid
  /\ ("maxPrepTime" \in DOMAIN filters /\ filters.maxPrepTime # 0)
       => r.prepTime <= filters.maxPrepTime

\* the filter on the mean of the three field averages
PassesMinRating_combined(v, m) ==
  LET a == v.averageRatings
  IN a.nutrition.num * a.flavor.den * a.difficulty.den
       + a.flavor.num * a.nutrition.den * a.difficulty.den
       + a.difficulty.num * a.nutrition.den * a.flavor.den
     >= 3 * m * a.nutrition.den * a.flavor.den * a.difficulty.den

\* (recipe.averageRatings?.flavor ?? 0) >= filters.minRating
PassesMinRating(v, m) == v.averageRatings.flavor.num >= m * v.averageRatings.flavor.den

ServiceListRecipes(p, fid, filters) ==
  /\ Begin(p, "service.listRecipes", "svc_list", [NoActor EXCEPT !.familyId = fid], 0, filters)
  /\ UNCHANGED <<recipes, ingredients, ratings, nextId, tx, config>>

\* findMany({where, include}), the averages of each, then the minRating filter
\* unless minRating is absent or 0
listRecipes(p) ==
  LET f == procs[p].data
      recipesWithRatings ==
        { ServiceRecipe(r) : r \in { x \in recipes : WhereMatches(x, procs[p].actor.familyId, f) } }
  IN /\ procs[p].pc = "svc_list"
     /\ IF "minRating" \notin DOMAIN f \/ f.minRating = 0
          THEN Finish(p, "OK", recipesWithRatings)
          ELSE Finish(p, "OK", { v \in recipesWithRatings : PassesMinRating(v, f.minRating) })
     /\ UNCHANGED <<recipes, ingredients, ratings, nextId, tx, config>>

-----------------------------------------------------------------------------
(* RecipeService.createRecipe *)

\* one row of recipeIngredient.createMany: notes as given
IngredientCreated(id, rid, line) ==
  [id |-> id, recipeId |-> rid, itemId |-> line.itemId, quantity |-> line.quantity,
   unit |-> line.unit, notes |-> Opt(line, "notes")]

\* the rows of one createMany statement
ManyCreated(rid, lines) ==
  { IngredientCreated(nextId.row + i - 1, rid, lines[i]) : i \in 1..Len(lines) }

ServiceCreateRecipe(p, uid, fid, data) ==
  /\ Begin(p, "service.createRecipe", "svc_crt_recipe",
           [NoActor EXCEPT !.id = uid, !.familyId = fid], 0, data)
  /\ UNCHANGED <<recipes, ingredients, ratings, nextId, tx, config>>

\* db.recipe.create({data: {...recipeData, userId, familyId}})
serviceCreate_recipe(p) ==
  LET d == procs[p].data
      row == RecipeRow(nextId.recipe, d.name, d.prepTime, procs[p].actor.id,
                       procs[p].actor.familyId)
  IN /\ procs[p].pc = "svc_crt_recipe"
     /\ CanWrite
     /\ nextId.recipe <= MaxRecipes
     /\ recipes' = recipes \cup {row}
     /\ nextId' = [nextId EXCEPT !.recipe = @ + 1]
     /\ procs' = [procs EXCEPT ![p].rid = row.id,
                    ![p].pc = IF Len(d.ingredients) > 0 THEN "svc_crt_many"
                              ELSE "svc_crt_read"]
     /\ UNCHANGED <<ingredients, ratings, tx, config>>

\* db.recipeIngredient.createMany({data: ingredients.map(...)})
serviceCreate_createMany(p) ==
  LET d == procs[p].data
  IN /\ procs[p].pc = "svc_crt_many"
     /\ CanWrite
     /\ \/ /\ IngredientForeignKeyOk(recipes, procs[p].rid)
           /\ ingredients' = ingredients \cup ManyCreated(procs[p].rid, d.ingredients)
           /\ nextId' = [nextId EXCEPT !.row = @ + Len(d.ingredients)]
           /\ Goto(p, "svc_crt_read", <<>>)
        \/ /\ ~IngredientForeignKeyOk(recipes, procs[p].rid)
           /\ Finish(p, "ERROR", {})
           /\ UNCHANGED <<ingredients, nextId>>
     /\ UNCHANGED <<recipes, ratings, tx, config>>

\* db.recipe.findUnique({where: {id: created.id}, include: {ingredients: true}})
serviceCreate_read(p) ==
  LET found == { ServiceRecipe(r) : r \in RecipeOf(recipes, procs[p].rid) }
  IN /\ procs[p].pc = "svc_crt_read"
     /\ IF found = {} THEN Finish(p, "ERROR", {}) ELSE Finish(p, "OK", found)
     /\ UNCHANGED <<recipes, ingredients, ratings, nextId, tx, config>>

-----------------------------------------------------------------------------
(* RecipeService.updateRecipe *)

ServiceUpdateRecipe(p, rid, uid, data) ==
  /\ Begin(p, "service.updateRecipe", "svc_upd_find", [NoActor EXCEPT !.id = uid], rid, data)
  /\ UNCHANGED <<recipes, ingredients, ratings, nextId, tx, config>>

\* findUnique; 'Recipe not found'; 'Not authorized to update this recipe'
serviceUpdate_find(p) ==
  LET found == RecipeOf(recipes, procs[p].rid)
  IN /\ procs[p].pc = "svc_upd_find"
     /\ IF found = {} THEN Finish(p, "NOT_FOUND", {})
        ELSE IF \E r \in found : r.userId # procs[p].actor.id
          THEN Finish(p, "FORBIDDEN", {})
        ELSE Goto(p, IF ReplacesIngredients(procs[p].data) THEN "svc_upd_deleteMany"
                     ELSE "svc_upd_update", <<>>)
     /\ UNCHANGED <<recipes, ingredients, ratings, nextId, tx, config>>

\* db.recipeIngredient.deleteMany({where: {recipeId}})
serviceUpdate_deleteMany(p) ==
  /\ procs[p].pc = "svc_upd_deleteMany"
  /\ CanWrite
  /\ ingredients' = ingredients \ IngredientsOf(ingredients, procs[p].rid)
  /\ Goto(p, "svc_upd_createMany", <<>>)
  /\ UNCHANGED <<recipes, ratings, nextId, tx, config>>

\* db.recipeIngredient.createMany({data: ingredients.map(...)})
serviceUpdate_createMany(p) ==
  LET d == procs[p].data
  IN /\ procs[p].pc = "svc_upd_createMany"
     /\ CanWrite
     /\ \/ /\ IngredientForeignKeyOk(recipes, procs[p].rid) \/ Len(d.ingredients) = 0
           /\ ingredients' = ingredients \cup ManyCreated(procs[p].rid, d.ingredients)
           /\ nextId' = [nextId EXCEPT !.row = @ + Len(d.ingredients)]
           /\ Goto(p, "svc_upd_update", <<>>)
        \/ /\ ~IngredientForeignKeyOk(recipes, procs[p].rid) /\ Len(d.ingredients) > 0
           /\ Finish(p, "ERROR", {})
           /\ UNCHANGED <<ingredients, nextId>>
     /\ UNCHANGED <<recipes, ratings, tx, config>>

\* db.recipe.update({where: {id}, data: recipeData, include: {ingredients: true}})
serviceUpdate_update(p) ==
  LET d == procs[p].data
      rid == procs[p].rid
  IN /\ procs[p].pc = "svc_upd_update"
     /\ CanWrite
     /\ \/ /\ RecipeOf(recipes, rid) # {}
           /\ recipes' = { IF r.id = rid THEN RecipeUpdated(r, d) ELSE r : r \in recipes }
           /\ Finish(p, "OK",
                { [recipe |-> RecipeUpdated(r, d),
                   ingredients |-> IngredientsOf(ingredients, rid)] :
                  r \in RecipeOf(recipes, rid) })
        \/ \* the record to update was not found
           /\ RecipeOf(recipes, rid) = {}
           /\ Finish(p, "ERROR", {})
           /\ UNCHANGED recipes
     /\ UNCHANGED <<ingredients, ratings, nextId, tx, config>>

-----------------------------------------------------------------------------
(* RecipeService.deleteRecipe *)

ServiceDeleteRecipe(p, rid, uid) ==
  /\ Begin(p, "service.deleteRecipe", "svc_del_find", [NoActor EXCEPT !.id = uid], rid, <<>>)
  /\ UNCHANGED <<recipes, ingredients, ratings, nextId, tx, config>>

\* findUnique; 'Recipe not found'; 'Not authorized to delete this recipe'
serviceDelete_find(p) ==
  LET found == RecipeOf(recipes, procs[p].rid)
  IN /\ procs[p].pc = "svc_del_find"
     /\ IF found = {} THEN Finish(p, "NOT_FOUND", {})
        ELSE IF \E r \in found : r.userId # procs[p].actor.id
          THEN Finish(p, "FORBIDDEN", {})
        ELSE Goto(p, "svc_del_delete", <<>>)
     /\ UNCHANGED <<recipes, ingredients, ratings, nextId, tx, config>>

\* db.recipe.delete({where: {id}}), which rejects when the row is gone; the child
\* rows go with the recipe (onDelete: Cascade)
serviceDelete_delete(p) ==
  /\ procs[p].pc = "svc_del_delete"
  /\ CanWrite
  /\ IF RecipeOf(recipes, procs[p].rid) = {}
       THEN /\ Finish(p, "ERROR", {})
            /\ UNCHANGED <<recipes, ingredients, ratings>>
       ELSE /\ recipes' = recipes \ RecipeOf(recipes, procs[p].rid)
            /\ ingredients' = ingredients \ IngredientsOf(ingredients, procs[p].rid)
            /\ ratings' = ratings \ RatingsOf(ratings, procs[p].rid)
            /\ Finish(p, "OK", {})
  /\ UNCHANGED <<nextId, tx, config>>

-----------------------------------------------------------------------------
(* RecipeService.cloneRecipe *)

ServiceCloneRecipe(p, rid, uid, fid) ==
  /\ Begin(p, "service.cloneRecipe", "svc_cln_find",
           [NoActor EXCEPT !.id = uid, !.familyId = fid], rid, <<>>)
  /\ UNCHANGED <<recipes, ingredients, ratings, nextId, tx, config>>

\* db.recipe.findUnique({where: {id: originalRecipeId}, include: {ingredients: true}})
serviceClone_find(p) ==
  LET found == RecipeOf(recipes, procs[p].rid)
  IN /\ procs[p].pc = "svc_cln_find"
     /\ IF found = {} THEN Finish(p, "NOT_FOUND", {})
        ELSE Goto(p, "svc_cln_create",
                  [originalRecipe |-> CHOOSE r \in found : TRUE,
                   originalIngredients |-> RowsInOrder(IngredientsOf(ingredients, procs[p].rid))])
     /\ UNCHANGED <<recipes, ingredients, ratings, nextId, tx, config>>

\* the copy that keeps the source's usageCount
ClonedRecipe_keepsUsage(original, id, uid, fid) ==
  [original EXCEPT !.id = id, !.name = @ \o " (Copy)", !.userId = uid, !.familyId = fid]

\* data: {...recipeData, name: `${recipeData.name} (Copy)`, userId, familyId, usageCount: 0}
ClonedRecipe(original, id, uid, fid) ==
  [original EXCEPT !.id = id, !.name = @ \o " (Copy)", !.userId = uid, !.familyId = fid,
                   !.usageCount = 0]

\* ingredients: {create: originalIngredients.map(({id, recipeId, ...ingredientData}) =>
\* ingredientData)}: the i-th line under a new id and the new recipe
ClonedIngredients(originals, rid) ==
  { [originals[i] EXCEPT !.id = nextId.row + i - 1, !.recipeId = rid] :
    i \in 1..Len(originals) }

\* db.recipe.create with the nested ingredient create: one statement
serviceClone_create(p) ==
  LET l == procs[p].loc
      row == ClonedRecipe(l.originalRecipe, nextId.recipe, procs[p].actor.id,
                          procs[p].actor.familyId)
      lines == ClonedIngredients(l.originalIngredients, row.id)
  IN /\ procs[p].pc = "svc_cln_create"
     /\ CanWrite
     /\ nextId.recipe <= MaxRecipes
     /\ recipes' = recipes \cup {row}
     /\ ingredients' = ingredients \cup lines
     /\ nextId' = [recipe |-> nextId.recipe + 1,
                   row |-> nextId.row + Len(l.originalIngredients)]
     /\ Finish(p, "OK", {[recipe |-> row, ingredients |-> lines]})
     /\ UNCHANGED <<ratings, tx, config>>

-----------------------------------------------------------------------------
(* The metrics of the plugin: RecipePlugin (index.ts) and RecipesPlugin.      *)
(* Where a specification models them, config also carries the plugin's      *)
(* class, its metrics snapshot, its metricsInterval field ({} when unset)    *)
(* and the set of interval timers that are active in the runtime.            *)

MetricKeys == {"totalRecipes", "activeRecipes", "totalRatings", "averageRating"}

\* private metrics = {totalRecipes: 0, activeRecipes: 0, totalRatings: 0, averageRating: 0}
ZeroMetrics ==
  [totalRecipes |-> 0, activeRecipes |-> 0, totalRatings |-> 0, averageRating |-> Frac(0, 1)]

\* a column of a rating as a number, null counted as 0 when coalesced
Column(r, f, coalesce) == IF r[f] = {} THEN (IF coalesce THEN {0} ELSE {}) ELSE r[f]

\* (nutrition + flavor + difficulty) / 3 of one rating row: integer columns, so an
\* integer division; null ({}) as soon as one operand is null
Third(r, coalesce) ==
  LET n == Column(r, "nutrition", coalesce)
      f == Column(r, "flavor", coalesce)
      d == Column(r, "difficulty", coalesce)
  IN IF n = {} \/ f = {} \/ d = {} THEN {}
     ELSE { (a + b + c) \div 3 : a \in n, b \in f, c \in d }

RECURSIVE SumThird(_, _)
SumThird(rows, coalesce) ==
  IF rows = {} THEN 0
  ELSE LET r == CHOOSE x \in rows : TRUE
       IN (CHOOSE v \in Third(r, coalesce) : TRUE) + SumThird(rows \ {r}, coalesce)

\* prisma.countRecipes()
CountAll == Cardinality(recipes)

\* prisma.countRecipes({minRating: 1}): the recipes whose avg over their ratings of
\* (COALESCE(nutrition, 0) + COALESCE(flavor, 0) + COALESCE(difficulty, 0)) / 3 is
\* at least 1; the avg of no row is null and fails the comparison
CountRated ==
  Cardinality({ r \in recipes :
                  LET rows == RatingsOf(ratings, r.id)
                  IN rows # {} /\ SumThird(rows, TRUE) >= Cardinality(rows) })

\* SELECT avg((nutrition + flavor + difficulty) / 3) FROM "RecipeRating" WHERE ...;
\* Number(result?.avg || 0)
OverallAverage ==
  LET rows == { r \in ratings : Third(r, FALSE) # {} }
  IN IF rows = {} THEN Frac(0, 1) ELSE Frac(SumThird(rows, FALSE), Cardinality(rows))

\* setInterval(() => this.updateMetrics(), 60000) fires
TimerFires(p) ==
  /\ config.timers # {}
  /\ Begin(p, config.class \o ".updateMetrics",
           IF config.class = "RecipePlugin" THEN "met_total" ELSE "mets_query",
           NoActor, 0, [before |-> config.metrics])
  /\ UNCHANGED <<recipes, ingredients, ratings, nextId, tx, config>>

\* the refresh that publishes the total as soon as it has it
updateMetrics_total_publishes(p) ==
  /\ procs[p].pc = "met_total"
  /\ Goto(p, "met_rated", [total |-> CountAll])
  /\ config' = [config EXCEPT !.metrics.totalRecipes = CountAll]
  /\ UNCHANGED <<recipes, ingredients, ratings, nextId, tx>>

\* The queries of a Promise.all are sent in the order of the array and the store
\* answers them in that order, one at a time.
updateMetrics_total(p) ==
  /\ procs[p].pc = "met_total"
  /\ Goto(p, "met_rated", [total |-> CountAll])
  /\ UNCHANGED <<recipes, ingredients, ratings, nextId, tx, config>>

updateMetrics_rated(p) ==
  /\ procs[p].pc = "met_rated"
  /\ Goto(p, "met_avg", [total |-> procs[p].loc.total, rated |-> CountRated])
  /\ UNCHANGED <<recipes, ingredients, ratings, nextId, tx, config>>

\* the average query resolves and this.metrics is assigned
updateMetrics_average(p) ==
  /\ procs[p].pc = "met_avg"
  /\ config' = [config EXCEPT !.metrics =
                  [totalRecipes |-> procs[p].loc.total, activeRecipes |-> procs[p].loc.rated,
                   totalRatings |-> procs[p].loc.rated, averageRating |-> OverallAverage]]
  /\ Finish(p, "OK", {})
  /\ UNCHANGED <<recipes, ingredients, ratings, nextId, tx>>

\* the queries of RecipesPlugin.updateMetrics, in the order of its Promise.all
MetricOrder == <<"totalRecipes", "activeRecipes", "totalRatings", "averageRating">>

\* What a query of RecipesPlugin.updateMetrics resolves to.  Its client is generated
\* from a schema with Recipe.status and RecipeRating.rating, which the schema of
\* this repository does not have: the published count is any number of recipes and
\* the average any sample score.
MetricAnswers(k) ==
  IF k = "totalRecipes" THEN {Cardinality(recipes)}
  ELSE IF k = "totalRatings" THEN {Cardinality(ratings)}
  ELSE IF k = "activeRecipes" THEN 0..Cardinality(recipes)
  ELSE {Frac(0, 1), Frac(MidScore, 1)}

\* the next query of the Promise.all resolves; with the last one this.metrics is
\* assigned
recipesMetrics_query(p) ==
  LET l == procs[p].loc
      k == MetricOrder[Cardinality(DOMAIN l) + 1]
  IN /\ procs[p].pc = "mets_query"
     /\ \E v \in MetricAnswers(k) :
          LET got == [x \in DOMAIN l \cup {k} |-> IF x = k THEN v ELSE l[x]]
          IN IF DOMAIN got = MetricKeys
               THEN /\ config' = [config EXCEPT !.metrics = got]
                    /\ Finish(p, "OK", {})
               ELSE /\ Goto(p, "mets_query", got)
                    /\ UNCHANGED config
     /\ UNCHANGED <<recipes, ingredients, ratings, nextId, tx>>

\* a query of the refresh rejects: catch (error) { this.logger.error(...) }
RefreshFails(p) ==
  /\ procs[p].pc \in {"met_total", "met_rated", "met_avg", "mets_query"}
  /\ Finish(p, "LOGGED", {})
  /\ UNCHANGED <<recipes, ingredients, ratings, nextId, tx, config>>

\* onStart: this.metricsInterval = setInterval(...).  The field takes the new
\* timer's handle; a timer it held before stays active in the runtime.
onStart ==
  /\ config.nextTimer <= MaxTimers
  /\ config' = [config EXCEPT !.timers = @ \cup {config.nextTimer},
                              !.metricsInterval = {config.nextTimer},
                              !.nextTimer = @ + 1,
                              !.running = TRUE]
  /\ UNCHANGED <<recipes, ingredients, ratings, nextId, tx, procs>>

\* onStop: if (this.metricsInterval) clearInterval(this.metricsInterval); the field
\* keeps the handle
onStop ==
  /\ config' = [config EXCEPT !.timers = @ \ config.metricsInterval, !.running = FALSE]
  /\ UNCHANGED <<recipes, ingredients, ratings, nextId, tx, procs>>

-----------------------------------------------------------------------------
(* A statement the store fails *)

\* the places where a request awaits a statement of a multi-statement write
WriteStatements ==
  { "crt_recipe", "crt_ingredient", "crt_read", "crt_commit",
    "upd_set", "upd_delete", "upd_insert", "upd_read", "upd_commit",
    "svc_crt_recipe", "svc_crt_many", "svc_crt_read",
    "svc_upd_deleteMany", "svc_upd_createMany", "svc_upd_update",
    "rate_select", "rate_write", "ctl_increment", "ctl_reread" }

\* The awaited statement rejects (the store refuses the write, the connection or
\* the driver times out): the request throws; an open transaction rolls back.
StatementFails(p) ==
  /\ procs[p].pc \in WriteStatements
  /\ Rollback(p)
  /\ Finish(p, "ERROR", {})
  /\ UNCHANGED <<recipes, ingredients, ratings, nextId, config>>

-----------------------------------------------------------------------------
(* Rating requests against a store that holds one recipe *)

InitRate ==
  /\ recipes = {RecipeRow(1, "Soup", MidScore, "u1", "f1")}
  /\ ingredients = {}
  /\ ratings = {}
  /\ nextId = [recipe |-> 2, row |-> 1]
  /\ tx = NoTx
  /\ procs = [p \in Procs |-> IdleProc]
  /\ config = DefaultRoles

NextRate ==
  \E p \in Procs :
    \/ \E rid \in TargetIds, uid \in Users, d \in RatingInputs :
         PrismaRateRecipe(p, rid, uid, d)
    \/ \E rid \in TargetIds, uid \in Users, d \in RatingInputs :
         ServiceRateRecipe(p, rid, uid, d)
    \/ rateRecipe_select(p)
    \/ rateRecipe_update(p)
    \/ rateRecipe_insert(p)
    \/ serviceRate_find(p)
    \/ serviceRate_upsert(p)

SpecRate == InitRate /\ [][NextRate]_vars

RateOps == {"prisma.rateRecipe", "service.rateRecipe"}

\* C1: in every reachable state, whatever rate requests have run and however they
\* interleaved, the store holds at most one rating row for each (recipeId, userId)
C1_OneRatingPerPair ==
  \A r1 \in ratings, r2 \in ratings :
    (r1.recipeId = r2.recipeId /\ r1.userId = r2.userId) => r1 = r2

\* two rate requests of one user for one recipe overlapped, both have ended, and
\* the pair has its row
C1_Witness ==
  \E p \in Procs, q \in Procs :
    /\ p # q
    /\ procs[p].pc = "done" /\ procs[q].pc = "done"
    /\ procs[p].op \in RateOps /\ procs[q].op \in RateOps
    /\ ~procs[p].solo /\ ~procs[q].solo
    /\ procs[p].rid = procs[q].rid /\ procs[p].actor.id = procs[q].actor.id
    /\ RatingOfPair(ratings, procs[p].rid, procs[p].actor.id) # {}

\* the (recipe, user) row a request found in the store when it started
PreRating(p) == RatingOfPair(procs[p].pre.ratings, procs[p].rid, procs[p].actor.id)

\* row holds the payload's value for each supplied key, and old's value otherwise
MergedOver(row, data, old) ==
  \A k \in RatingKeys : row[k] = IF k \in DOMAIN data THEN {data[k]} ELSE old[k]

\* C9: when a pair is rated a second time, by a request that runs after the first
\* has ended, the store holds exactly one row for the pair, and each of nutrition,
\* flavor, difficulty and comment is the second payload's value where it supplies
\* the field and the value stored by the first otherwise
C9_SecondRatingMerges ==
  \A p \in Procs :
    (procs[p].pc = "done" /\ procs[p].op \in RateOps /\ RanAloneLast(p)
       /\ PreRating(p) # {})
    => /\ Cardinality(RatingOfPair(ratings, procs[p].rid, procs[p].actor.id)) = 1
       /\ \A row \in RatingOfPair(ratings, procs[p].rid, procs[p].actor.id),
             old \in PreRating(p) : MergedOver(row, procs[p].data, old)

\* a second rating that supplies some keys and not others has been stored over a
\* first one that had stored a value the second does not supply
C9_Witness ==
  \E p \in Procs :
    /\ procs[p].pc = "done" /\ procs[p].op \in RateOps /\ RanAloneLast(p)
    /\ procs[p].res.status = "OK"
    /\ DOMAIN procs[p].data \notin {{}, RatingKeys}
    /\ \E old \in PreRating(p), k \in RatingKeys \ DOMAIN procs[p].data : old[k] # {}

-----------------------------------------------------------------------------
(* A controller request against a recipe with an ingredient line and
   a rating; the role lists are the defaults or a configuration that lets only
   parents rate *)

ParentsOnly == [DefaultRoles EXCEPT !.canRateRecipes = {"PARENT"}]


\* payloads of PUT /recipes/:id
AuthUpdateInputs ==
  { [name |-> "Stew"], [ingredients |-> <<SampleLine>>],
    [name |-> "Stew", prepTime |-> MinScore, ingredients |-> <<SampleLine, SampleLine>>] }

\* payloads of POST /recipes/:id/rate
AuthRatingInputs ==
  { [flavor |-> MidScore], [nutrition |-> MinScore, comment |-> "tasty"] }

InitAuth ==
  /\ recipes = {RecipeRow(1, "Soup", MidScore, "u1", "f1")}
  /\ ingredients = {IngredientInserted(1, 1, SampleLine)}
  /\ ratings = {RatingInserted(2, 1, "u2", [flavor |-> MaxScore])}
  /\ nextId = [recipe |-> 2, row |-> 3]
  /\ tx = NoTx
  /\ procs = [p \in Procs |-> IdleProc]
  /\ config \in {DefaultRoles, ParentsOnly}

\* one request per behaviour: it meets the store as InitAuth populated it
Unserved == \A q \in Procs : procs[q].pc = "idle"

NextAuth ==
  \E p \in Procs :
    \/ Unserved /\ \E user \in UserContext, rid \in TargetIds :
         ControllerGetRecipeById(p, user, rid)
    \/ Unserved /\ \E user \in UserContext, rid \in TargetIds, d \in AuthUpdateInputs :
         ControllerUpdateRecipe(p, user, rid, d)
    \/ Unserved /\ \E user \in UserContext, rid \in TargetIds :
         RouteDeleteRecipe(p, user, rid)
    \/ Unserved /\ \E user \in UserContext, rid \in TargetIds, d \in AuthRatingInputs :
         RouteRateRecipe(p, user, rid, d)
    \/ getRecipeById(p)
    \/ updateRecipe_check(p)
    \/ updateRecipe_set(p)
    \/ updateRecipe_deleteIngredients(p)
    \/ updateRecipe_insertIngredient(p)
    \/ updateRecipe_readBack(p)
    \/ updateRecipe_commit(p)
    \/ deleteRecipe_check(p)
    \/ deleteRecipe_find(p)
    \/ deleteRecipe_delete(p)
    \/ rateRecipe_check(p)
    \/ rateRecipe_select(p)
    \/ rateRecipe_update(p)
    \/ rateRecipe_insert(p)
    \/ rateRecipe_increment(p)
    \/ rateRecipe_reread(p)

SpecAuth == InitAuth /\ [][NextAuth]_vars

\* the recipe row a request's target had when the request started
PreRecipe(p) == RecipeOf(procs[p].pre.recipes, procs[p].rid)

\* the recipe, its ingredient rows and its rating rows are as the request found them
Untouched(p) ==
  /\ RecipeOf(recipes, procs[p].rid) = PreRecipe(p)
  /\ IngredientsOf(ingredients, procs[p].rid)
       = IngredientsOf(procs[p].pre.ingredients, procs[p].rid)
  /\ RatingsOf(ratings, procs[p].rid) = RatingsOf(procs[p].pre.ratings, procs[p].rid)

FamilyNotOwner(user, r) == user.id # r.userId /\ user.familyId = r.familyId
Outsider(user, r) == user.id # r.userId /\ user.familyId # r.familyId

\* C2: an update or delete asked by a member of the recipe's family who is not its
\* owner ends Forbidden and leaves the recipe as it was, and the same actor's
\* read-by-id is allowed
C2_FamilyMemberCannotMutate ==
  \A p \in Procs : \A r \in PreRecipe(p) :
    (procs[p].pc = "done" /\ FamilyNotOwner(procs[p].actor, r))
    => /\ procs[p].op \in {"controller.updateRecipe", "controller.deleteRecipe"}
            => procs[p].res.status = "FORBIDDEN" /\ Untouched(p)
       /\ procs[p].op = "controller.getRecipeById" => procs[p].res.status = "OK"

\* C3: read-by-id of an existing recipe is allowed exactly when the actor owns it or
\* is of its family, and an actor who is neither gets Forbidden on read-by-id,
\* update and delete
C3_ReadRule ==
  \A p \in Procs : \A r \in PreRecipe(p) :
    procs[p].pc = "done"
    => /\ procs[p].op = "controller.getRecipeById"
            => (procs[p].res.status = "OK"
                  <=> (procs[p].actor.id = r.userId
                         \/ procs[p].actor.familyId = r.familyId))
       /\ (procs[p].op \in {"controller.getRecipeById", "controller.updateRecipe",
                            "controller.deleteRecipe"}
             /\ Outsider(procs[p].actor, r))
            => procs[p].res.status = "FORBIDDEN" /\ Untouched(p)

\* the recipe's owner, now of another family, has read it
C3_Witness ==
  \E p \in Procs : \E r \in PreRecipe(p) :
    /\ Done(p, "controller.getRecipeById")
    /\ procs[p].actor.id = r.userId /\ procs[p].actor.familyId # r.familyId
    /\ procs[p].res.status = "OK" /\ procs[p].res.value # {}

\* C4: a rate request on an existing recipe is allowed exactly when the actor's role
\* is in the configured canRateRecipes list and the actor is of the recipe's family,
\* whoever owns the recipe
C4_RateRule ==
  \A p \in Procs : \A r \in PreRecipe(p) :
    Done(p, "controller.rateRecipe")
    => (procs[p].res.status # "FORBIDDEN"
          <=> (procs[p].actor.role \in config.canRateRecipes
                 /\ procs[p].actor.familyId = r.familyId))

\* the recipe's owner, of another family and with an allowed role, was denied
C4_Witness ==
  \E p \in Procs : \E r \in PreRecipe(p) :
    /\ Done(p, "controller.rateRecipe")
    /\ procs[p].actor.id = r.userId /\ procs[p].actor.familyId # r.familyId
    /\ procs[p].actor.role \in config.canRateRecipes
    /\ procs[p].res.status = "FORBIDDEN"

-----------------------------------------------------------------------------
(* Creates, updates and reads against a store that holds one recipe *)

\* what a create submits
CreateInputs == { [name |-> "Stew", prepTime |-> 10, ingredients |-> L] : L \in IngredientLists }

\* what an update submits: a new ingredient list, alone or with a new name, or a
\* new name alone
UpdateInputs ==
  { [ingredients |-> L] : L \in IngredientLists }
    \cup { [name |-> "Stew", ingredients |-> L] : L \in IngredientLists }
    \cup { [name |-> "Stew"] }

Author == [id |-> "u1", role |-> "PARENT", familyId |-> "f1"]

InitWrite ==
  /\ recipes = {RecipeRow(1, "Soup", 10, Author.id, Author.familyId)}
  /\ ingredients = {IngredientInserted(1, 1, SampleLine)}
  /\ ratings = {}
  /\ nextId = [recipe |-> 2, row |-> 2]
  /\ tx = NoTx
  /\ procs = [p \in Procs |-> IdleProc]
  /\ config = DefaultRoles

NextWrite ==
  \E p \in Procs :
    \/ \E d \in CreateInputs : PrismaCreateRecipe(p, Author, d)
    \/ \E d \in CreateInputs : ServiceCreateRecipe(p, Author.id, Author.familyId, d)
    \/ \E rid \in TargetIds, d \in UpdateInputs : PrismaUpdateRecipe(p, rid, d)
    \/ \E rid \in TargetIds, uid \in Users, d \in UpdateInputs :
         ServiceUpdateRecipe(p, rid, uid, d)
    \/ \E rid \in TargetIds : PrismaFindRecipeById(p, rid)
    \/ \E rid \in TargetIds : ServiceGetRecipe(p, rid)
    \/ createRecipe_insertRecipe(p)
    \/ createRecipe_insertIngredient(p)
    \/ createRecipe_readBack(p)
    \/ createRecipe_commit(p)
    \/ updateRecipe_set(p)
    \/ updateRecipe_deleteIngredients(p)
    \/ updateRecipe_insertIngredient(p)
    \/ updateRecipe_readBack(p)
    \/ updateRecipe_commit(p)
    \/ serviceCreate_recipe(p)
    \/ serviceCreate_createMany(p)
    \/ serviceCreate_read(p)
    \/ serviceUpdate_find(p)
    \/ serviceUpdate_deleteMany(p)
    \/ serviceUpdate_createMany(p)
    \/ serviceUpdate_update(p)
    \/ findRecipeById_query(p)
    \/ getRecipe(p)
    \/ StatementFails(p)

SpecWrite == InitWrite /\ [][NextWrite]_vars

\* an update of the name and of the ingredient list
RenameAndReplace == [name |-> "Stew", ingredients |-> <<FlourLine>>]

\* Creates of CustomPrismaClient with its updates and reads beside them
NextCreate ==
  \E p \in Procs :
    \/ \E d \in CreateInputs : PrismaCreateRecipe(p, Author, d)
    \/ \E rid \in TargetIds : PrismaUpdateRecipe(p, rid, RenameAndReplace)
    \/ \E rid \in TargetIds : PrismaFindRecipeById(p, rid)
    \/ createRecipe_insertRecipe(p)
    \/ createRecipe_insertIngredient(p)
    \/ createRecipe_readBack(p)
    \/ createRecipe_commit(p)
    \/ updateRecipe_set(p)
    \/ updateRecipe_deleteIngredients(p)
    \/ updateRecipe_insertIngredient(p)
    \/ updateRecipe_readBack(p)
    \/ updateRecipe_commit(p)
    \/ findRecipeById_query(p)
    \/ StatementFails(p)

SpecCreate == InitWrite /\ [][NextCreate]_vars

\* an ingredient line as a caller reads or writes it: a missing note and an empty
\* note are the same line
NoteText(n) == IF n = {} THEN "" ELSE CHOOSE v \in n : TRUE
Line(x) == <<x.itemId, x.quantity, x.unit, NoteText(x.notes)>>
SubmittedLines(L) ==
  { <<L[i].itemId, L[i].quantity, L[i].unit, NoteText(Opt(L[i], "notes"))>> : i \in 1..Len(L) }

\* the ingredient lines a returned recipe carries: the raw-SQL result holds them as
\* an array with copies, the ORM result as the rows
ResultLines(op, v) ==
  IF op \in {"prisma.findRecipeById", "prisma.createRecipe", "prisma.updateRecipe"}
    THEN { Line(j) : j \in DOMAIN v.ingredients }
    ELSE { Line(i) : i \in v.ingredients }

ReadOps == {"prisma.findRecipeById", "service.getRecipe"}
UpdateOps == {"prisma.updateRecipe", "service.updateRecipe"}

\* the ingredient lines of recipe 1 before any request
OldLines == { Line(IngredientInserted(1, 1, SampleLine)) }

NoStatementFailed == \A p \in Procs : procs[p].res.status # "ERROR"

\* C5: while updates replace the ingredient list of recipe 1 (stored set O) with a
\* new list N and no statement fails, every read of recipe 1 returns exactly O or
\* exactly the N of one of the updates: never the empty set (unless N is empty),
\* a part of N or a mix of O and N.
C5_ReadSeesOldOrNew ==
  \A q \in Procs :
    (/\ procs[q].pc = "done" /\ procs[q].op \in ReadOps /\ procs[q].rid = 1
     /\ NoStatementFailed)
    => \A v \in procs[q].res.value :
         \/ ResultLines(procs[q].op, v) = OldLines
         \/ \E p \in Procs :
              /\ procs[p].op \in UpdateOps /\ procs[p].rid = 1
              /\ ReplacesIngredients(procs[p].data)
              /\ ResultLines(procs[q].op, v) = SubmittedLines(procs[p].data.ingredients)

\* C6: when a CustomPrismaClient.createRecipe ends in a failure (of the recipe
\* insert, of an ingredient insert, of the read-back or of the commit), no recipe
\* row and no ingredient row of that create is in the store, and its transaction
\* is closed.
C6_CreateAllOrNothing ==
  \A p \in Procs :
    (Done(p, "prisma.createRecipe") /\ procs[p].res.status # "OK")
    => /\ tx.owner # p
       /\ procs[p].rid # 0 =>
            /\ RecipeOf(recipes, procs[p].rid) = {}
            /\ IngredientsOf(ingredients, procs[p].rid) = {}
       /\ RanAloneLast(p) => Store = procs[p].pre

\* a create failed after it had inserted its recipe row and an ingredient row, and
\* the store holds neither
C6_Witness ==
  \E p \in Procs :
    /\ Done(p, "prisma.createRecipe") /\ procs[p].res.status = "ERROR"
    /\ procs[p].rid # 0
    /\ "i" \in DOMAIN procs[p].loc /\ procs[p].loc.i >= 1
    /\ RecipeOf(recipes, procs[p].rid) = {}
    /\ IngredientsOf(ingredients, procs[p].rid) = {}

ServiceWriteOps == {"service.createRecipe", "service.updateRecipe"}

\* C7: when a RecipeService.createRecipe or RecipeService.updateRecipe that submits
\* a non-empty ingredient list and ran with no other request in flight ends in a
\* failure of one of its statements, the store is exactly as it was before the
\* operation began.
C7_ServiceWriteIsOneTransaction ==
  \A p \in Procs :
    (/\ procs[p].pc = "done" /\ procs[p].op \in ServiceWriteOps
     /\ ReplacesIngredients(procs[p].data) /\ Len(procs[p].data.ingredients) > 0
     /\ procs[p].res.status = "ERROR" /\ RanAloneLast(p))
    => Store = procs[p].pre

\* C8: after a successful CustomPrismaClient.createRecipe with ingredient list L
\* that ran alone, the value create returned and a read-by-id of the new recipe
\* taken next both carry exactly the lines of L.
C8_CreateThenReadCarriesList ==
  \A p \in Procs :
    (/\ Done(p, "prisma.createRecipe") /\ procs[p].res.status = "OK" /\ RanAloneLast(p))
    => LET L == SubmittedLines(procs[p].data.ingredients)
           Carries(val) ==
             /\ val # {}
             /\ \A v \in val : ResultLines("prisma.createRecipe", v) = L
       IN /\ Carries(procs[p].res.value)
          /\ Carries(findRecipeById(procs[p].rid))

-----------------------------------------------------------------------------
(* RecipeService.getRecipe over every short sequence of ratings *)

Raters == <<"u1", "u2", "u3", "u4">>

\* what a rating holds in its three numeric columns: null or a score
RatingStats == [RatingFields -> {{}} \cup {{v} : v \in Scores}]

\* the rating rows of recipe 1 for a sequence of stats, one rater each
RatingRows(stats) ==
  { [id |-> i, recipeId |-> 1, userId |-> Raters[i], nutrition |-> stats[i].nutrition,
     flavor |-> stats[i].flavor, difficulty |-> stats[i].difficulty, comment |-> {}] :
    i \in 1..Len(stats) }

InitAvg ==
  /\ recipes = {RecipeRow(1, "Soup", 10, Author.id, Author.familyId)}
  /\ ingredients = {}
  /\ \E n \in 0..MaxRatings : \E stats \in [1..n -> RatingStats] : ratings = RatingRows(stats)
  /\ nextId = [recipe |-> 2, row |-> MaxRatings + 1]
  /\ tx = NoTx
  /\ procs = [p \in Procs |-> IdleProc]
  /\ config = DefaultRoles

NextAvg ==
  \E p \in Procs :
    \/ Unserved /\ \E rid \in TargetIds : ServiceGetRecipe(p, rid)
    \/ getRecipe(p)

SpecAvg == InitAvg /\ [][NextAvg]_vars

\* the positions of a rating sequence where field f is not null
PresentAt(rs, f) == { i \in 1..Len(rs) : rs[i][f] # {} }

RECURSIVE TotalAt(_, _, _)
\* the sum of field f over a set of positions where it is present
TotalAt(rs, f, at) ==
  IF at = {} THEN 0
  ELSE LET i == CHOOSE k \in at : TRUE
       IN (CHOOSE v \in rs[i][f] : TRUE) + TotalAt(rs, f, at \ {i})

\* C10: for every rating sequence and each field f of nutrition, flavor and
\* difficulty, the average getRecipe returns for f is the arithmetic mean of the
\* non-null f values, and 0 when no rating has f, whatever the other two fields hold.
C10_AverageIsMeanOfPresent ==
  \A p \in Procs :
    Done(p, "service.getRecipe")
    => \A v \in procs[p].res.value : \A f \in RatingFields :
         LET at == PresentAt(v.ratings, f)
             avg == v.averageRatings[f]
         IN /\ avg.den > 0
            /\ IF at = {} THEN avg.num = 0
               ELSE avg.num * Cardinality(at) = TotalAt(v.ratings, f, at) * avg.den

\* a read of a recipe with two ratings, one without nutrition and one with a
\* non-zero nutrition, and with no difficulty at all: the nutrition average is the
\* one value and the difficulty average is 0
C10_Witness ==
  \E p \in Procs :
    /\ Done(p, "service.getRecipe")
    /\ \E v \in procs[p].res.value :
         /\ Len(v.ratings) = 2
         /\ v.ratings[1].nutrition = {} /\ v.ratings[1].flavor # {}
         /\ v.ratings[2].nutrition = {MaxScore}
         /\ PresentAt(v.ratings, "difficulty") = {}
         /\ SameNumber(v.averageRatings.nutrition, Frac(MaxScore, 1))
         /\ v.averageRatings.difficulty.num = 0

-----------------------------------------------------------------------------
(* Clones of a used and rated recipe, with updates of the source beside them *)

\* a user of another family
Stranger == [id |-> "u2", role |-> "PARENT", familyId |-> "f2"]

InitClone ==
  /\ recipes = {[RecipeRow(1, "Soup", 10, Author.id, Author.familyId) EXCEPT !.usageCount = 2]}
  /\ ingredients = {IngredientInserted(1, 1, SampleLine), IngredientInserted(2, 1, FlourLine)}
  /\ ratings = {RatingInserted(3, 1, "u2", [flavor |-> MaxScore])}
  /\ nextId = [recipe |-> 2, row |-> 4]
  /\ tx = NoTx
  /\ procs = [p \in Procs |-> IdleProc]
  /\ config = DefaultRoles

NextClone ==
  \E p \in Procs :
    \/ \E rid \in TargetIds, user \in {Author, Stranger} :
         ServiceCloneRecipe(p, rid, user.id, user.familyId)
    \/ \E rid \in TargetIds : ServiceUpdateRecipe(p, rid, Author.id, RenameAndReplace)
    \/ serviceClone_find(p)
    \/ serviceClone_create(p)
    \/ serviceUpdate_find(p)
    \/ serviceUpdate_deleteMany(p)
    \/ serviceUpdate_createMany(p)
    \/ serviceUpdate_update(p)

SpecClone == InitClone /\ [][NextClone]_vars

\* the ids of the elements of a sequence of rows
IdsOf(rows) == { rows[i].id : i \in 1..Len(rows) }

\* C11: a cloneRecipe that found its source returns, and the store holds, a new
\* recipe row with an id other than the source's, usageCount 0, the source's name
\* followed by " (Copy)", the cloning actor's userId and familyId, as many
\* ingredient rows as the source had with the same (itemId, quantity, unit, notes)
\* lines under ids none of which is a source ingredient's, and no rating row (the
\* store holds exactly these rows while no other request targets the copy); a
\* clone that ran alone copied the ingredient rows the source had before it began.
C11_CloneIsFreshCopy ==
  \A p \in Procs :
    (Done(p, "service.cloneRecipe") /\ procs[p].res.status = "OK")
    => LET src == procs[p].loc.originalRecipe
           srcLines == procs[p].loc.originalIngredients
       IN \A v \in procs[p].res.value :
            /\ v.recipe.id # src.id
            /\ v.recipe.usageCount = 0
            /\ v.recipe.name = src.name \o " (Copy)"
            /\ v.recipe.userId = procs[p].actor.id
            /\ v.recipe.familyId = procs[p].actor.familyId
            /\ v.recipe.prepTime = src.prepTime
            /\ Cardinality(v.ingredients) = Len(srcLines)
            /\ { Line(i) : i \in v.ingredients } = { Line(srcLines[k]) : k \in 1..Len(srcLines) }
            /\ { i.id : i \in v.ingredients } \cap IdsOf(srcLines) = {}
            /\ \A i \in v.ingredients : i.recipeId = v.recipe.id
            /\ RatingsOf(ratings, v.recipe.id) = {}
            /\ (\A q \in Procs \ {p} : procs[q].rid # v.recipe.id) =>
                 /\ RecipeOf(recipes, v.recipe.id) = {v.recipe}
                 /\ IngredientsOf(ingredients, v.recipe.id) = v.ingredients
            /\ RanAloneLast(p) =>
                 /\ src \in procs[p].pre.recipes
                 /\ { srcLines[k] : k \in 1..Len(srcLines) }
                      = IngredientsOf(procs[p].pre.ingredients, src.id)

\* user u2 of family f2 has cloned the used, rated recipe 1 with its two lines
C11_Witness ==
  \E p \in Procs :
    /\ Done(p, "service.cloneRecipe") /\ procs[p].res.status = "OK"
    /\ procs[p].rid = 1 /\ procs[p].actor.id = Stranger.id
    /\ procs[p].actor.familyId = Stranger.familyId
    /\ procs[p].loc.originalRecipe.usageCount = 2
    /\ RatingsOf(ratings, 1) # {}
    /\ \E v \in procs[p].res.value :
         /\ v.recipe.name = "Soup (Copy)" /\ v.recipe.usageCount = 0
         /\ Cardinality(v.ingredients) = 2

-----------------------------------------------------------------------------
(* The life of recipes: create, clone, update, rate, use and delete, interleaved *)

\* the two members of the author's family
Relative == [id |-> "u2", role |-> "PARENT", familyId |-> "f1"]

StewInput == [name |-> "Stew", prepTime |-> 10, ingredients |-> <<FlourLine>>]

\* the ratings submitted: a first one by the author, one more by the relative
LifeRatings ==
  { [user |-> Author, data |-> [flavor |-> MidScore]],
    [user |-> Relative, data |-> [nutrition |-> MinScore, comment |-> "tasty"]] }

\* recipe 1, used once and rated by the relative
InitLife ==
  /\ recipes = {[RecipeRow(1, "Soup", 10, Author.id, Author.familyId) EXCEPT !.usageCount = 1]}
  /\ ingredients = {IngredientInserted(1, 1, SampleLine)}
  /\ ratings = {RatingInserted(2, 1, Relative.id, [flavor |-> MaxScore])}
  /\ nextId = [recipe |-> 2, row |-> 3]
  /\ tx = NoTx
  /\ procs = [p \in Procs |-> IdleProc]
  /\ config = DefaultRoles

NextLife ==
  \E p \in Procs :
    \/ PrismaCreateRecipe(p, Author, StewInput)
    \/ \E rid \in TargetIds : ServiceCloneRecipe(p, rid, Relative.id, Relative.familyId)
    \/ \E rid \in TargetIds : PrismaUpdateRecipe(p, rid, RenameAndReplace)
    \/ \E rid \in TargetIds, r \in LifeRatings : RouteRateRecipe(p, r.user, rid, r.data)
    \/ \E rid \in TargetIds : PrismaIncrementUsageCount(p, rid)
    \/ \E rid \in TargetIds : RouteDeleteRecipe(p, Author, rid)
    \/ createRecipe_insertRecipe(p)
    \/ createRecipe_insertIngredient(p)
    \/ createRecipe_readBack(p)
    \/ createRecipe_commit(p)
    \/ serviceClone_find(p)
    \/ serviceClone_create(p)
    \/ updateRecipe_set(p)
    \/ updateRecipe_deleteIngredients(p)
    \/ updateRecipe_insertIngredient(p)
    \/ updateRecipe_readBack(p)
    \/ updateRecipe_commit(p)
    \/ rateRecipe_check(p)
    \/ rateRecipe_select(p)
    \/ rateRecipe_update(p)
    \/ rateRecipe_insert(p)
    \/ rateRecipe_increment(p)
    \/ rateRecipe_reread(p)
    \/ incrementUsageCount(p)
    \/ deleteRecipe_check(p)
    \/ deleteRecipe_find(p)
    \/ deleteRecipe_delete(p)
    \/ StatementFails(p)

SpecLife == InitLife /\ [][NextLife]_vars

\* C12: in every state every ingredient row and every rating row refers to a recipe
\* row, and once a delete of a recipe has succeeded no recipe, ingredient or rating
\* row of that id is in the store, also when a rate request on the recipe runs
\* beside the delete.
C12_ChildRowsHaveRecipe ==
  /\ \A i \in ingredients : RecipeOf(recipes, i.recipeId) # {}
  /\ \A r \in ratings : RecipeOf(recipes, r.recipeId) # {}
  /\ \A p \in Procs :
       (Done(p, "controller.deleteRecipe") /\ procs[p].res.status = "OK")
       => /\ RecipeOf(recipes, procs[p].rid) = {}
          /\ IngredientsOf(ingredients, procs[p].rid) = {}
          /\ RatingsOf(ratings, procs[p].rid) = {}

\* a rated recipe was deleted while a rate request on it had passed its checks and
\* was about to write; the request has ended and no row of the recipe is left
C12_Witness ==
  \E p, q \in Procs :
    /\ Done(p, "controller.deleteRecipe") /\ procs[p].res.status = "OK"
    /\ RatingsOf(procs[p].pre.ratings, procs[p].rid) # {}
    /\ IngredientsOf(procs[p].pre.ingredients, procs[p].rid) # {}
    /\ Done(q, "controller.rateRecipe") /\ procs[q].rid = procs[p].rid
    /\ ~procs[q].solo /\ procs[q].seq < procs[p].seq
    /\ "existing" \in DOMAIN procs[q].loc
    /\ RatingsOf(ratings, procs[p].rid) = {}
    /\ IngredientsOf(ingredients, procs[p].rid) = {}

\* C13: in every step, a recipe row that stays in the store keeps or raises its
\* usageCount, and a recipe row that enters the store (by create or by clone) has
\* usageCount 0.
C13_UsageCountNeverDecreases ==
  [][ \A n \in recipes' :
        \/ \E r \in recipes : r.id = n.id /\ n.usageCount >= r.usageCount
        \/ (\A r \in recipes : r.id # n.id) /\ n.usageCount = 0 ]_vars

\* a recipe was used (incremented or rated) and then renamed by an update, and its
\* usageCount is still at least 1
C13_Witness ==
  \E p, q \in Procs :
    /\ Done(p, "prisma.updateRecipe") /\ procs[p].res.status = "OK"
    /\ procs[q].pc = "done" /\ procs[q].res.status = "OK"
    /\ procs[q].op \in {"prisma.incrementUsageCount", "controller.rateRecipe"}
    /\ procs[q].rid = procs[p].rid /\ procs[q].seq < procs[p].seq
    /\ \E r \in RecipeOf(recipes, procs[p].rid) : r.name = "Stew" /\ r.usageCount >= 1

\* C14: an incrementUsageCount that ran alone for an id with no recipe row ends in
\* NotFound.
C14_IncrementOfMissingIsNotFound ==
  \A p \in Procs :
    (/\ Done(p, "prisma.incrementUsageCount") /\ RanAloneLast(p)
     /\ RecipeOf(procs[p].pre.recipes, procs[p].rid) = {})
    => procs[p].res.status = "NOT_FOUND"

\* C20: when a rate request that ran alone has finished, with success or with an
\* error, and the rating of its (recipe, user) pair is not what it was before the
\* request, the recipe's usageCount is exactly 1 higher than before the request.
C20_RatingCountsAsOneUse ==
  \A p \in Procs :
    (/\ Done(p, "controller.rateRecipe") /\ RanAloneLast(p)
     /\ RatingOfPair(ratings, procs[p].rid, procs[p].actor.id)
          # RatingOfPair(procs[p].pre.ratings, procs[p].rid, procs[p].actor.id))
    => \E r \in RecipeOf(recipes, procs[p].rid) :
         \E r0 \in RecipeOf(procs[p].pre.recipes, procs[p].rid) :
           r.usageCount = r0.usageCount + 1

\* C15: a CustomPrismaClient.rateRecipe that ran alone for a recipe id with no
\* recipe row fails with NotFound, and no rating row of that id is stored.
C15_RateOfMissingIsNotFound ==
  \A p \in Procs :
    (/\ Done(p, "prisma.rateRecipe") /\ RanAloneLast(p)
     /\ RecipeOf(procs[p].pre.recipes, procs[p].rid) = {})
    => /\ procs[p].res.status = "NOT_FOUND"
       /\ RatingsOf(ratings, procs[p].rid) = {}

\* C16: when two rate requests of one user for one existing recipe, each supplying
\* at least one field, ran concurrently and both have ended, both ended without
\* error and the pair has exactly one row.
C16_ConcurrentRatesBothSucceed ==
  \A p, q \in Procs :
    (/\ p # q
     /\ procs[p].pc = "done" /\ procs[q].pc = "done"
     /\ procs[p].op \in RateOps /\ procs[q].op \in RateOps
     /\ procs[p].rid = procs[q].rid /\ procs[p].actor.id = procs[q].actor.id
     /\ RecipeOf(recipes, procs[p].rid) # {}
     /\ DOMAIN procs[p].data # {} /\ DOMAIN procs[q].data # {}
     /\ ~procs[p].solo /\ ~procs[q].solo)
    => /\ procs[p].res.status = "OK" /\ procs[q].res.status = "OK"
       /\ Cardinality(RatingOfPair(ratings, procs[p].rid, procs[p].actor.id)) = 1

-----------------------------------------------------------------------------
(* Updates of the scalar fields of one recipe, interleaved *)

\* the scalar columns an update may supply
ScalarFields == {"name", "prepTime"}

FieldInputs == { [name |-> "Stew"], [name |-> "Broth", prepTime |-> 20], [prepTime |-> 30] }

NextFields ==
  \E p \in Procs :
    \/ \E rid \in TargetIds, d \in FieldInputs : PrismaUpdateRecipe(p, rid, d)
    \/ \E rid \in TargetIds, d \in FieldInputs : ServiceUpdateRecipe(p, rid, Author.id, d)
    \/ updateRecipe_set(p)
    \/ updateRecipe_readBack(p)
    \/ updateRecipe_commit(p)
    \/ serviceUpdate_find(p)
    \/ serviceUpdate_update(p)

SpecFields == InitWrite /\ [][NextFields]_vars

\* update request p makes its write visible in this step
WritesNow(p) ==
  /\ procs[p].op \in UpdateOps
  /\ procs[p].pc # "done" /\ procs'[p].pc = "done" /\ procs'[p].res.status = "OK"

-----------------------------------------------------------------------------
(* Listings of a family's recipes under a rating sequence of recipe 1 *)

\* the numeric columns of a rating of recipe 1
ListStats ==
  [nutrition : {{}, {MaxScore}}, flavor : {{}} \cup {{v} : v \in Scores},
   difficulty : {{}, {MaxScore}}]

\* RecipeFilters samples: no key, minRating, maxPrepTime (0 and 10), both
ListFilters ==
  { <<>>, [maxPrepTime |-> 0], [maxPrepTime |-> 10] }
    \cup { [minRating |-> m] : m \in Scores }
    \cup { [minRating |-> m, maxPrepTime |-> 10] : m \in Scores }

\* recipes 1 and 2 of family f1 and recipe 3 of family f2; recipe 2 is rated once
\* with flavor MidScore, recipe 3 once with flavor MaxScore
InitList ==
  /\ recipes = { RecipeRow(1, "Soup", 10, Author.id, Author.familyId),
                 RecipeRow(2, "Stew", 20, Author.id, Author.familyId),
                 RecipeRow(3, "Soup", 10, Stranger.id, Stranger.familyId) }
  /\ ingredients = {}
  /\ \E n \in 0..MaxRatings : \E stats \in [1..n -> ListStats] :
       ratings = RatingRows(stats)
                   \cup { RatingInserted(MaxRatings + 1, 2, Author.id,
                                         [nutrition |-> MaxScore, flavor |-> MidScore]),
                          RatingInserted(MaxRatings + 2, 3, Stranger.id, [flavor |-> MaxScore]) }
  /\ nextId = [recipe |-> 4, row |-> MaxRatings + 3]
  /\ tx = NoTx
  /\ procs = [p \in Procs |-> IdleProc]
  /\ config = DefaultRoles

NextList ==
  \E p \in Procs :
    \/ Unserved /\ \E fid \in Families, f \in ListFilters : ServiceListRecipes(p, fid, f)
    \/ listRecipes(p)

SpecList == InitList /\ [][NextList]_vars

\* the mean of the non-null flavor values of a recipe's ratings (0 if none) is at
\* least m
FlavorMeanAtLeast(rid, m) ==
  LET rs == RowsInOrder(RatingsOf(ratings, rid))
      at == PresentAt(rs, "flavor")
  IN IF at = {} THEN 0 >= m ELSE TotalAt(rs, "flavor", at) >= m * Cardinality(at)

-----------------------------------------------------------------------------
(* SpecMetrics: the plugin is started with the metrics it was constructed    *)
(* with; its timer fires refreshes while recipes are rated and deleted.      *)

PluginClasses == {"RecipePlugin", "RecipesPlugin"}

\* the plugin after onStart: one interval timer, held in metricsInterval
StartedPlugin(class, snapshot) ==
  [canCreateRecipes |-> DefaultRoles.canCreateRecipes,
   canDeleteRecipes |-> DefaultRoles.canDeleteRecipes,
   canRateRecipes |-> DefaultRoles.canRateRecipes,
   class |-> class, metrics |-> snapshot, metricsInterval |-> {1}, timers |-> {1},
   nextTimer |-> 2, running |-> TRUE]

MetricRating == [nutrition |-> MaxScore, flavor |-> MidScore, difficulty |-> MidScore]

\* recipe 1 rated in full by the relative, recipe 2 not rated
InitMetrics ==
  /\ recipes = {RecipeRow(1, "Soup", 10, Author.id, Author.familyId),
                RecipeRow(2, "Stew", 10, Author.id, Author.familyId)}
  /\ ingredients = {IngredientInserted(1, 1, SampleLine)}
  /\ ratings = {RatingInserted(2, 1, Relative.id,
                  [nutrition |-> MaxScore, flavor |-> MaxScore, difficulty |-> MaxScore])}
  /\ nextId = [recipe |-> 3, row |-> 3]
  /\ tx = NoTx
  /\ procs = [p \in Procs |-> IdleProc]
  /\ \E class \in PluginClasses : config = StartedPlugin(class, ZeroMetrics)

NextMetrics ==
  \E p \in Procs :
    \/ TimerFires(p)
    \/ updateMetrics_total(p)
    \/ updateMetrics_rated(p)
    \/ updateMetrics_average(p)
    \/ recipesMetrics_query(p)
    \/ RefreshFails(p)
    \/ \E r \in recipes : PrismaRateRecipe(p, r.id, Author.id, MetricRating)
    \/ \E r \in recipes : RouteDeleteRecipe(p, Author, r.id)
    \/ rateRecipe_select(p)
    \/ rateRecipe_update(p)
    \/ rateRecipe_insert(p)
    \/ deleteRecipe_check(p)
    \/ deleteRecipe_find(p)
    \/ deleteRecipe_delete(p)

SpecMetrics == InitMetrics /\ [][NextMetrics]_vars

RefreshOps == {"RecipePlugin.updateMetrics", "RecipesPlugin.updateMetrics"}

\* C19: a refresh of the metrics that fails leaves the snapshot as it was: the
\* snapshot changes only in the step in which a refresh completes with all its
\* queries answered, a refresh that failed with no other request since leaves the
\* snapshot it found, and the timer that fires the next refresh stays active.
C19_FailedRefreshKeepsSnapshot ==
  /\ [][ config'.metrics # config.metrics =>
           \E p \in Procs : /\ procs[p].op \in RefreshOps
                            /\ InFlight(p)
                            /\ procs'[p].pc = "done"
                            /\ procs'[p].res.status = "OK" ]_vars
  /\ [](\A p \in Procs :
          (procs[p].pc = "done" /\ procs[p].op \in RefreshOps /\ procs[p].res.status = "LOGGED")
            => /\ config.timers # {}
               /\ config.metricsInterval \subseteq config.timers
               /\ RanAloneLast(p) => config.metrics = procs[p].data.before)

\* a refresh failed after one of its queries was answered, and the next firing of
\* the timer refreshed the snapshot
C19_Witness ==
  \E p, q \in Procs :
    /\ procs[p].pc = "done" /\ procs[p].op \in RefreshOps
    /\ procs[p].res.status = "LOGGED"
    /\ DOMAIN procs[p].loc # {}
    /\ procs[q].pc = "done" /\ procs[q].op \in RefreshOps
    /\ procs[q].res.status = "OK"
    /\ procs[q].seq > procs[p].seq
    /\ procs[q].data.before = procs[p].data.before
    /\ config.metrics # procs[p].data.before

-----------------------------------------------------------------------------
(* The averages of CustomPrismaClient.findRecipeById, as the routes return   *)
(* them (SpecAuth)                                                           *)

\* C21: the averageRatings of a recipe returned by GET /recipes/:id or after a rate
\* hold the number 0, not null, for every field for which the recipe has no rating
\* with that field non-null.
C21_AbsentAverageIsZero ==
  \A p \in Procs :
    (/\ procs[p].pc = "done"
     /\ procs[p].op \in {"controller.getRecipeById", "controller.rateRecipe"}
     /\ procs[p].res.status = "OK")
    => \A v \in procs[p].res.value : \A f \in RatingFields :
         (\A rr \in RatingsOf(ratings, v.recipe.id) : rr[f] = {})
         => /\ v.averageRatings[f] # {}
            /\ \A a \in v.averageRatings[f] : SameNumber(a, Frac(0, 1))

\* C22: an update, delete or rate request on an id that has no recipe row ends
\* NotFound whoever the actor is: existence is checked before every permission,
\* the role lists of the routes included.
C22_MissingIsNotFoundForAll ==
  \A p \in Procs :
    (/\ procs[p].pc = "done"
     /\ procs[p].op \in {"controller.updateRecipe", "controller.deleteRecipe",
                         "controller.rateRecipe"}
     /\ PreRecipe(p) = {})
    => procs[p].res.status = "NOT_FOUND"

-----------------------------------------------------------------------------
(* What CustomPrismaClient.rateRecipe stores and accepts (SpecRate)          *)

\* C23: when the pair has no row, rateRecipe inserts a row in which each of
\* nutrition, flavor and difficulty is the supplied value, 0 included, and is null
\* exactly when the payload does not supply the field.
C23_InsertStoresSuppliedValues ==
  \A p \in Procs :
    (/\ Done(p, "prisma.rateRecipe") /\ procs[p].res.status = "OK"
     /\ RanAloneLast(p) /\ PreRating(p) = {})
    => /\ RatingOfPair(ratings, procs[p].rid, procs[p].actor.id) # {}
       /\ \A row \in RatingOfPair(ratings, procs[p].rid, procs[p].actor.id) :
            \A f \in RatingFields : row[f] = Opt(procs[p].data, f)

\* C24: a rating that supplies none of nutrition, flavor and difficulty is accepted
\* whether or not the pair already has a row, and when it has one the three stored
\* fields stay as they were.
C24_EmptyRatingIsAccepted ==
  \A p \in Procs :
    (/\ Done(p, "prisma.rateRecipe") /\ RanAloneLast(p)
     /\ DOMAIN procs[p].data \cap RatingFields = {}
     /\ RecipeOf(recipes, procs[p].rid) # {})
    => /\ procs[p].res.status = "OK"
       /\ \A old \in PreRating(p) :
            \A row \in RatingOfPair(ratings, procs[p].rid, procs[p].actor.id) :
              \A f \in RatingFields : row[f] = old[f]

\* C25: every recipe that listRecipes returns under filter.maxPrepTime = m, m = 0
\* included, has prepTime <= m.
C25_MaxPrepTimeBounds ==
  \A p \in Procs :
    (Done(p, "service.listRecipes") /\ "maxPrepTime" \in DOMAIN procs[p].data)
    => \A v \in procs[p].res.value : v.recipe.prepTime <= procs[p].data.maxPrepTime

-----------------------------------------------------------------------------
(* What a refresh of the metrics counts (SpecMetrics)                        *)

\* C26: after a refresh of the metrics that succeeded, with no request running
\* beside it or since, totalRatings is the number of rating rows of the store and
\* totalRecipes the number of recipe rows.
C26_TotalsCountRows ==
  \A p \in Procs :
    (/\ procs[p].pc = "done" /\ procs[p].op \in RefreshOps
     /\ procs[p].res.status = "OK" /\ RanAloneLast(p))
    => /\ config.metrics.totalRatings = Cardinality(ratings)
       /\ config.metrics.totalRecipes = Cardinality(recipes)

-----------------------------------------------------------------------------
(* SpecJoin: reads by id of a recipe that has any number of ingredient lines *)
(* and of rating rows                                                        *)

\* recipe 1 with i ingredient rows and r rating rows, each rating by another user
InitJoin ==
  /\ recipes = {RecipeRow(1, "Soup", 10, Author.id, Author.familyId)}
  /\ \E i \in 0..MaxIngredients :
       ingredients = { IngredientInserted(j, 1, IngredientInputs[j]) : j \in 1..i }
  /\ \E r \in 0..MaxRatings :
       ratings = { RatingInserted(MaxIngredients + j, 1, Raters[j], [flavor |-> MidScore]) :
                     j \in 1..r }
  /\ nextId = [recipe |-> 2, row |-> MaxIngredients + MaxRatings + 1]
  /\ tx = NoTx
  /\ procs = [p \in Procs |-> IdleProc]
  /\ config = DefaultRoles

NextJoin ==
  \E p \in Procs :
    \/ \E rid \in TargetIds : PrismaFindRecipeById(p, rid)
    \/ \E user \in {Author, Stranger}, rid \in TargetIds : ControllerGetRecipeById(p, user, rid)
    \/ findRecipeById_query(p)
    \/ getRecipeById(p)

SpecJoin == InitJoin /\ [][NextJoin]_vars

\* C27: findRecipeById returns each stored ingredient line of the recipe once and
\* each stored rating row once, so the lengths of the two lists are the numbers of
\* stored rows, whatever these numbers are.
C27_EachRowReturnedOnce ==
  \A p \in Procs :
    (procs[p].pc = "done" /\ procs[p].res.status = "OK"
       /\ procs[p].op \in {"prisma.findRecipeById", "controller.getRecipeById"})
    => \A v \in procs[p].res.value :
         /\ DOMAIN v.ingredients = { IngredientJson(x) : x \in IngredientsOf(ingredients, v.recipe.id) }
         /\ DOMAIN v.ratings = { RatingJson(x) : x \in RatingsOf(ratings, v.recipe.id) }
         /\ \A j \in DOMAIN v.ingredients : v.ingredients[j] = 1
         /\ \A j \in DOMAIN v.ratings : v.ratings[j] = 1

-----------------------------------------------------------------------------
(* SpecReject: update, delete and rate requests, some of them refused, by    *)
(* the owner and by a user of another family                                 *)

\* who asks for which update: the owner with an empty name and with a valid one,
\* the stranger with a valid one
RejectUpdates ==
  { [user |-> Author, data |-> [name |-> ""]],
    [user |-> Author, data |-> [name |-> "Stew"]],
    [user |-> Stranger, data |-> [name |-> "Stew"]] }

\* who submits which rating: the owner a score above the range and a valid one,
\* the stranger a valid one
RejectRatings ==
  { [user |-> Author, data |-> [flavor |-> MaxScore + 1]],
    [user |-> Author, data |-> [flavor |-> MidScore]],
    [user |-> Stranger, data |-> [flavor |-> MidScore]] }

NextReject ==
  \E p \in Procs :
    \/ \E rid \in TargetIds, u \in RejectUpdates : ControllerUpdateRecipe(p, u.user, rid, u.data)
    \/ \E rid \in TargetIds, user \in {Author, Stranger} : RouteDeleteRecipe(p, user, rid)
    \/ \E rid \in TargetIds, r \in RejectRatings : RouteRateRecipe(p, r.user, rid, r.data)
    \/ \E rid \in TargetIds, uid \in Users : ServiceUpdateRecipe(p, rid, uid, [name |-> "Stew"])
    \/ \E rid \in TargetIds, uid \in Users : ServiceDeleteRecipe(p, rid, uid)
    \/ updateRecipe_check(p)
    \/ updateRecipe_set(p)
    \/ updateRecipe_readBack(p)
    \/ updateRecipe_commit(p)
    \/ deleteRecipe_check(p)
    \/ deleteRecipe_find(p)
    \/ deleteRecipe_delete(p)
    \/ rateRecipe_check(p)
    \/ rateRecipe_select(p)
    \/ rateRecipe_update(p)
    \/ rateRecipe_insert(p)
    \/ rateRecipe_increment(p)
    \/ rateRecipe_reread(p)
    \/ serviceUpdate_find(p)
    \/ serviceUpdate_update(p)
    \/ serviceDelete_find(p)
    \/ serviceDelete_delete(p)

SpecReject == InitLife /\ [][NextReject]_vars

MutatingOps ==
  {"controller.updateRecipe", "controller.deleteRecipe", "controller.rateRecipe",
   "service.updateRecipe", "service.deleteRecipe"}

Refusals == {"NOT_FOUND", "FORBIDDEN", "VALIDATION"}

\* C28: an update, delete or rate request that ends NotFound, Forbidden or with a
\* validation error writes nothing: the step in which it ends so changes no row,
\* and when no other request ran beside it or since, every recipe, ingredient and
\* rating row (usageCount included) is as the request found it.
C28_RefusedRequestWritesNothing ==
  /\ [][ \A p \in Procs :
           (/\ procs[p].op \in MutatingOps
            /\ procs[p].pc # "done" /\ procs'[p].pc = "done"
            /\ procs'[p].res.status \in Refusals)
           => <<recipes, ingredients, ratings>>' = <<recipes, ingredients, ratings>> ]_vars
  /\ [](\A p \in Procs :
          (/\ procs[p].pc = "done" /\ procs[p].op \in MutatingOps
           /\ procs[p].res.status \in Refusals /\ RanAloneLast(p))
          => Store = procs[p].pre)

\* after a rating was stored and counted, a rating of the same recipe with a score
\* out of range has ended with a validation error
C28_Witness ==
  \E p, q \in Procs :
    /\ Done(q, "controller.rateRecipe") /\ procs[q].res.status = "OK"
    /\ Done(p, "controller.rateRecipe") /\ procs[p].res.status = "VALIDATION"
    /\ procs[p].seq > procs[q].seq /\ procs[p].rid = procs[q].rid
    /\ RanAloneLast(p)
    /\ \E r \in RecipeOf(recipes, procs[p].rid) : r.usageCount = 2

-----------------------------------------------------------------------------
(* SpecTimer: the host starts and stops the plugin, in any order and any     *)
(* number of times, while the timers fire refreshes                          *)

\* the plugin constructed and initialised, not started: no timer yet
InitTimer ==
  /\ recipes = {RecipeRow(1, "Soup", 10, Author.id, Author.familyId)}
  /\ ingredients = {}
  /\ ratings = {}
  /\ nextId = [recipe |-> 2, row |-> 1]
  /\ tx = NoTx
  /\ procs = [p \in Procs |-> IdleProc]
  /\ \E class \in PluginClasses :
       config = [StartedPlugin(class, ZeroMetrics) EXCEPT
                   !.metricsInterval = {}, !.timers = {}, !.nextTimer = 1, !.running = FALSE]

NextTimer ==
  \/ onStart
  \/ onStop
  \/ \E p \in Procs :
       \/ TimerFires(p)
       \/ updateMetrics_total(p)
       \/ updateMetrics_rated(p)
       \/ updateMetrics_average(p)
       \/ recipesMetrics_query(p)
       \/ RefreshFails(p)

SpecTimer == InitTimer /\ [][NextTimer]_vars

\* C29: whatever the sequence of onStart and onStop calls, at most one timer of the
\* metrics is active at any time, and once onStop has returned (and until the next
\* onStart) no refresh is started by a timer.
C29_OneTimerStoppedByOnStop ==
  /\ [](Cardinality(config.timers) <= 1)
  /\ [][ (~config.running /\ ~config'.running)
           => \A p \in Procs : procs[p].pc = "idle" => procs'[p].pc = "idle" ]_vars

-----------------------------------------------------------------------------
(* Who may clone (SpecClone)                                                 *)

\* C30: a clone succeeds only for an actor the read rule allows on the source
\* recipe, its owner or a member of its family, and a clone that ran with no other
\* request beside it leaves the source recipe, its ingredient rows and its rating
\* rows as they were.
C30_CloneFollowsReadRule ==
  \A p \in Procs :
    (Done(p, "service.cloneRecipe") /\ procs[p].res.status = "OK")
    => /\ \A r \in PreRecipe(p) :
            procs[p].actor.id = r.userId \/ procs[p].actor.familyId = r.familyId
       /\ RanAloneLast(p) => Untouched(p)

=============================================================================
